---- MODULE Spec2Model ----
(***************************************************************************)
(* A state-machine model of the MBASIC interpreter core: the statement     *)
(* table (runtime.cpp), the runtime store and the tick loop with its       *)
(* control-flow statements (interpreter.cpp).                              *)
(*                                                                         *)
(* One step of the model is one call of Interpreter::tick().  A statement  *)
(* handler is an operator from a machine record                            *)
(*     [rt |-> the Runtime, io |-> the console output, thrown |-> the      *)
(*      RuntimeError in flight, if any]                                    *)
(* to the machine record after the handler returned or threw.              *)
(*                                                                         *)
(* Numbers of the model are whole numbers; identifiers are sequences of    *)
(* characters so that the type suffix is the last character, as in the     *)
(* source.                                                                 *)
(***************************************************************************)
EXTENDS Integers, Sequences, FiniteSets, TLC

VARIABLES
    statements,   \* Runtime::statements, the StatementTable
    runtime_,     \* Interpreter::runtime_, the Runtime fields
    state_,       \* Interpreter::state_, the InterpreterState
    io_,          \* what Interpreter::io_ has printed, oldest first
    escaped,      \* the exception that left tick(), if one did
    hist          \* history: counts of what the ticks so far have executed

vars == <<statements, runtime_, state_, io_, escaped, hist>>

----------------------------------------------------------------------------
(* Bounds of the model *)

\* no run is followed for more than MaxTicks calls of tick()
MaxTicks == 10
\* calls of tick() with a halted PC per run
MaxIdle == 1
\* CONT commands per run
MaxConts == 2
\* MERGE commands of a walk through the statement table
MaxMerges == 1

----------------------------------------------------------------------------
(* std::optional *)

None == <<>>
Some(x) == <<x>>
has_value(o) == o # <<>>
value_of(o) == o[1]

----------------------------------------------------------------------------
(* value.hpp *)

INT16_MAX == 32767
INT16_MIN == -32768

\* 2^24: a float holds every whole number up to here exactly
FLT_MANT == 16777216

Int16Value(n) == [type |-> "INTEGER", n |-> n, s |-> ""]
SingleValue(n) == [type |-> "SINGLE", n |-> n, s |-> ""]
DoubleValue(n) == [type |-> "DOUBLE", n |-> n, s |-> ""]
StringValue(s) == [type |-> "STRING", n |-> 0, s |-> s]

is_string(v) == v.type = "STRING"

to_number(v) == IF is_string(v) THEN 0 ELSE v.n

\* on whole numbers rint() is the identity; what is left is the clamp
to_integer(v) ==
    LET d == to_number(v)
    IN  IF d >= INT16_MAX + 1 THEN INT16_MAX
        ELSE IF d <= INT16_MIN - 1 THEN INT16_MIN
        ELSE d

to_bool(v) == IF is_string(v) THEN v.s # "" ELSE v.n # 0

Abs(n) == IF n < 0 THEN -n ELSE n

\* the spacing of floats around a: the least power of two u with a < 2^24 * u
RECURSIVE Ulp(_, _)
Ulp(a, u) == IF a < FLT_MANT * u THEN u ELSE Ulp(a, 2 * u)

\* static_cast<float>(double) on a whole number: round to nearest, ties to even
round_half_even(q, r, u) ==
    IF 2 * r < u THEN q
    ELSE IF 2 * r > u THEN q + 1
    ELSE IF q % 2 = 0 THEN q ELSE q + 1

round_to_ulp(a, u) == round_half_even(a \div u, a % u, u) * u

to_float(d) ==
    IF d < 0 THEN -round_to_ulp(Abs(d), Ulp(Abs(d), 1)) ELSE round_to_ulp(Abs(d), Ulp(Abs(d), 1))

coerce_to(v, target) ==
    CASE target = "INTEGER" -> Int16Value(to_integer(v))
      [] target = "SINGLE"  -> SingleValue(to_float(to_number(v)))
      [] target = "DOUBLE"  -> DoubleValue(to_number(v))
      [] target = "STRING"  -> IF is_string(v) THEN v ELSE StringValue("")

default_for_type(type) ==
    CASE type = "INTEGER" -> Int16Value(0)
      [] type = "SINGLE"  -> SingleValue(0)
      [] type = "DOUBLE"  -> DoubleValue(0)
      [] type = "STRING"  -> StringValue("")

\* int16_t(x) of an int: the low 16 bits, read as two's complement
int16_cast(x) ==
    LET m == x % 65536
    IN  IF m > INT16_MAX THEN m - 65536 ELSE m

----------------------------------------------------------------------------
(* runtime.hpp: PC *)

running_at(l, s) == [line |-> l, stmt |-> s, reason |-> "RUNNING"]
halted(r) == [line |-> 0, stmt |-> 0, reason |-> r]
is_running(pc) == pc.reason = "RUNNING"
\* a default-constructed PC
PC0 == running_at(0, 0)

----------------------------------------------------------------------------
(* runtime.cpp: StatementTable.  A Program is a sequence of Lines          *)
(* [line_number, statements].                                              *)

RECURSIVE SortInsert(_, _)
SortInsert(sorted, x) ==
    IF sorted = <<>> THEN <<x>>
    ELSE IF x < Head(sorted) THEN <<x>> \o sorted
    ELSE <<Head(sorted)>> \o SortInsert(Tail(sorted), x)

RECURSIVE Sort(_)
Sort(seq) == IF seq = <<>> THEN <<>> ELSE SortInsert(Sort(Tail(seq)), Head(seq))

\* the entries one Line adds to table_
LineEntries(line) ==
    [key \in {<<line.line_number, i - 1>> : i \in 1..Len(line.statements)} |->
        line.statements[key[2] + 1]]

RECURSIVE BuildTable(_, _)
BuildTable(lines, table) ==
    IF lines = <<>> THEN table
    ELSE BuildTable(Tail(lines), LineEntries(Head(lines)) @@ table)

build(program) ==
    [table_          |-> BuildTable(program, <<>>),
     line_first_stmt_ |-> [n \in {program[i].line_number : i \in 1..Len(program)} |-> 0],
     line_numbers_   |-> Sort([i \in 1..Len(program) |-> program[i].line_number])]

\* the loop of StatementTable::merge that removes the statements of a line
erase_line(table, line_num) == [key \in {k \in DOMAIN table : k[1] # line_num} |-> table[key]]

\* what StatementTable::merge does with one line
merge_line(st, line) ==
    [table_           |-> LineEntries(line) @@ erase_line(st.table_, line.line_number),
     line_first_stmt_ |-> (line.line_number :> 0) @@ st.line_first_stmt_,
     line_numbers_    |->
         IF \E i \in 1..Len(st.line_numbers_) : st.line_numbers_[i] = line.line_number
         THEN st.line_numbers_
         ELSE SortInsert(st.line_numbers_, line.line_number)]

\* StatementTable::merge
RECURSIVE merge(_, _)
merge(st, program) ==
    IF program = <<>> THEN st ELSE merge(merge_line(st, Head(program)), Tail(program))

get(pc) ==
    IF <<pc.line, pc.stmt>> \in DOMAIN statements.table_
    THEN Some(statements.table_[<<pc.line, pc.stmt>>])
    ELSE None

valid(pc) == <<pc.line, pc.stmt>> \in DOMAIN statements.table_

first(st) ==
    IF st.line_numbers_ = <<>> THEN halted("END")
    ELSE running_at(st.line_numbers_[1], 0)

next(current) ==
    IF <<current.line, current.stmt + 1>> \in DOMAIN statements.table_
    THEN running_at(current.line, current.stmt + 1)
    ELSE LET ln == statements.line_numbers_
             above == {i \in 1..Len(ln) : ln[i] > current.line}
         IN  IF above = {} THEN halted("END")
             ELSE running_at(ln[CHOOSE i \in above : \A j \in above : i <= j], 0)

find_line(line_num) ==
    IF line_num \in DOMAIN statements.line_first_stmt_
    THEN running_at(line_num, statements.line_first_stmt_[line_num])
    ELSE halted("ERROR")

----------------------------------------------------------------------------
(* error.hpp: ErrorCode *)

NEXT_WITHOUT_FOR == 1
RETURN_WITHOUT_GOSUB == 3
UNDEFINED_LINE == 8
NO_RESUME == 19
RESUME_WITHOUT_ERROR == 20
FOR_WITHOUT_NEXT == 26
WHILE_WITHOUT_WEND == 29
WEND_WITHOUT_WHILE == 30
OUT_OF_DATA == 4
DIVISION_BY_ZERO == 11
ILLEGAL_DIRECT == 12
DUPLICATE_DEFINITION == 10
BAD_FILE_NUMBER == 52
FILE_NOT_FOUND == 53
BAD_FILE_NAME == 64

SUBSCRIPT_OUT_OF_RANGE == 9
ILLEGAL_FUNCTION_CALL == 5
UNDEFINED_USER_FUNCTION == 18
TYPE_MISMATCH == 13

----------------------------------------------------------------------------
(* ast.hpp and the parser: the statements and expressions of the model *)

NumberExpr(n) == [k |-> "Number", value |-> n, name |-> <<>>]
VariableExpr(name) == [k |-> "Variable", value |-> 0, name |-> name]
StringExpr(v) == [k |-> "String", value |-> v]
\* a NumberExpr whose value is the fraction num / den, den > 0
FractionExpr(num, den) == [k |-> "Fraction", num |-> num, den |-> den]
\* the operator of the model: "MINUS"
UnaryExpr(op, operand) == [k |-> "Unary", op |-> op, operand |-> operand]
\* the operators of the model: "PLUS", "DIVIDE", "BACKSLASH", "MOD" and the
\* six comparisons "EQUAL", "NOT_EQUAL", "LESS_THAN", "GREATER_THAN",
\* "LESS_EQUAL", "GREATER_EQUAL"
BinaryExpr(op, left, right) == [k |-> "Binary", op |-> op, left |-> left, right |-> right]
\* a call of a user function: the name starts with "fn"
FunctionCallExpr(name, args) == [k |-> "FunctionCall", name |-> name, args |-> args]

PrintStmt(e) == [k |-> "PRINT", expression |-> e]
\* Parser::parse_if: THEN or ELSE is followed by a line number or by the
\* statements up to ELSE or the end of the line
IfStmt(condition, then_stmts, then_line, else_stmts, else_line) ==
    [k |-> "IF", condition |-> condition, then_stmts |-> then_stmts,
     then_line |-> then_line, else_stmts |-> else_stmts, else_line |-> else_line]
LetStmt(name, e) == [k |-> "LET", target |-> name, expression |-> e]

\* a LetStmt whose target is the ArrayAccessExpr name(indices)
LetElementStmt(name, indices, e) ==
    [k |-> "LET_ELEMENT", target |-> name, indices |-> indices, expression |-> e]
\* MID$(variable, start[, length]) = replacement
MidAssignStmt(variable, start, length, replacement) ==
    [k |-> "MID_ASSIGN", variable |-> variable, start |-> start, length |-> length,
     replacement |-> replacement]
\* Parser::parse_option: the base is 0 or 1
OptionBaseStmt(base) == [k |-> "OPTION_BASE", base |-> base]
\* Parser::parse_for: the STEP clause is optional
ForStmt(name, a, b, step) ==
    [k |-> "FOR", variable |-> name, start_expr |-> a, end_expr |-> b, step_expr |-> step]
NextStmt(names) == [k |-> "NEXT", variables |-> names]
WhileStmt(e) == [k |-> "WHILE", condition |-> e]
WendStmt == [k |-> "WEND"]
GotoStmt(n) == [k |-> "GOTO", target_line |-> n]
GosubStmt(n) == [k |-> "GOSUB", target_line |-> n]
\* Parser::parse_return: RETURN or RETURN n
OnGotoStmt(selector, targets) ==
    [k |-> "ON_GOTO", selector |-> selector, targets |-> targets]
OnGosubStmt(selector, targets) ==
    [k |-> "ON_GOSUB", selector |-> selector, targets |-> targets]
ReturnStmt(target) == [k |-> "RETURN", target_line |-> target]
EndStmt == [k |-> "END"]
StopStmt == [k |-> "STOP"]
RemStmt == [k |-> "REM"]
ErrorStmt(e) == [k |-> "ERROR", error_code |-> e]
DataStmt(values) == [k |-> "DATA", values |-> values]
ReadStmt(variables) == [k |-> "READ", variables |-> variables]
RestoreStmt(target) == [k |-> "RESTORE", target_line |-> target]
\* a DimStmt of one ArrayDecl
DimStmt(name, dimensions) == [k |-> "DIM", name |-> name, dimensions |-> dimensions]
EraseStmt(arrays) == [k |-> "ERASE", arrays |-> arrays]
\* name(indices) as an expression
ArrayAccessExpr(name, indices) == [k |-> "ArrayAccess", name |-> name, indices |-> indices]
DefFnStmt(name, params, body) ==
    [k |-> "DEF_FN", name |-> name, params |-> params, body |-> body]
ClearStmt == [k |-> "CLEAR"]
\* mode is "INPUT" or "OUTPUT"
OpenStmt(mode, file_number, filename) ==
    [k |-> "OPEN", mode |-> mode, file_number |-> file_number, filename |-> filename]

CommonStmt(variables) == [k |-> "COMMON", variables |-> variables]
\* CHAIN filename[, line_number][, ALL]: the model has no MERGE and no DELETE
ChainStmt(filename, line_number, all) ==
    [k |-> "CHAIN", filename |-> filename, line_number |-> line_number, all |-> all,
     merge |-> FALSE]
\* CLOSE with no file number closes every file
CloseStmt(file_numbers) == [k |-> "CLOSE", file_numbers |-> file_numbers]
\* FIELD #file_number, width AS variable, ...
FieldVar(width, variable) == [width |-> width, variable |-> variable]
FieldStmt(file_number, fields) ==
    [k |-> "FIELD", file_number |-> file_number, fields |-> fields]
LsetStmt(variable, value) == [k |-> "LSET", variable |-> variable, value |-> value]

\* Parser::parse_on, ON ERROR GOTO|GOSUB n: n = 0 disables error handling
parse_on_error(n, is_gosub) ==
    [k |-> "ON_ERROR",
     target_line |-> IF n = 0 THEN None ELSE Some(n),
     is_gosub |-> is_gosub]

\* Parser::parse_resume: RESUME, RESUME NEXT, RESUME n
\* has_next: the token after RESUME is NEXT; number: the NUMBER token there, if any
parse_resume(has_next, number) ==
    IF has_next THEN [k |-> "RESUME", resume_type |-> "NEXT", target_line |-> None]
    ELSE IF has_value(number)
    THEN [k |-> "RESUME", resume_type |-> "LINE", target_line |-> number]
    ELSE [k |-> "RESUME", resume_type |-> "IMPLICIT", target_line |-> None]

Line(n, stmts) == [line_number |-> n, statements |-> stmts]

----------------------------------------------------------------------------
(* runtime.cpp: Runtime *)

ERR == <<"e", "r", "r", "%">>
ERL == <<"e", "r", "l", "%">>

\* Runtime::resolve_type: the suffix decides; def_type_map holds SINGLE for
\* every letter (Runtime::Runtime) as long as the program has no DEFtype
resolve_type(name) ==
    LET last == IF name = <<>> THEN "" ELSE name[Len(name)]
    IN  CASE last = "%" -> "INTEGER"
          [] last = "!" -> "SINGLE"
          [] last = "#" -> "DOUBLE"
          [] last = "$" -> "STRING"
          [] OTHER      -> "SINGLE"

\* the statements of the program in the order of program.lines, each with
\* the number of its line
RECURSIVE ProgramStatements(_)
ProgramStatements(program) ==
    IF program = <<>> THEN <<>>
    ELSE [i \in 1..Len(Head(program).statements) |->
             [line_number |-> Head(program).line_number,
              stmt |-> Head(program).statements[i]]]
         \o ProgramStatements(Tail(program))

\* Runtime::collect_data over a list of statements: every DATA statement
\* sets the entry of its line to the index of its first value
RECURSIVE collect_data(_, _, _)
collect_data(stmts, data_values, data_line_map) ==
    IF stmts = <<>> THEN [data_values |-> data_values, data_line_map |-> data_line_map]
    ELSE IF Head(stmts).stmt.k = "DATA"
    THEN collect_data(Tail(stmts), data_values \o Head(stmts).stmt.values,
                      (Head(stmts).line_number :> Len(data_values)) @@ data_line_map)
    ELSE collect_data(Tail(stmts), data_values, data_line_map)

\* the loop of Runtime::load over the DEF FN statements: a later definition
\* of a name replaces an earlier one
RECURSIVE collect_functions(_, _)
collect_functions(stmts, user_functions) ==
    IF stmts = <<>> THEN user_functions
    ELSE IF Head(stmts).stmt.k = "DEF_FN"
    THEN collect_functions(Tail(stmts),
                           (Head(stmts).stmt.name :> Head(stmts).stmt) @@ user_functions)
    ELSE collect_functions(Tail(stmts), user_functions)

\* the orders in which an unordered_map with these keys may be iterated
IterationOrders(keys) ==
    {order \in [1..Cardinality(keys) -> keys] :
        \A i, j \in 1..Cardinality(keys) : order[i] = order[j] => i = j}

\* the Runtime after Runtime::Runtime() and Runtime::load(program);
\* data_line_order is the order in which data_line_map is iterated
load(program, data_line_order) ==
    [pc                     |-> first(build(program)),
     next_pc                |-> None,
     exec_stack             |-> <<>>,
     for_states             |-> <<>>,
     arrays_                |-> <<>>,
     array_base             |-> 0,
     data_values            |-> collect_data(ProgramStatements(program), <<>>, <<>>).data_values,
     data_line_map          |-> collect_data(ProgramStatements(program), <<>>, <<>>).data_line_map,
     data_line_order        |-> data_line_order,
     data_ptr               |-> 0,
     user_functions         |-> collect_functions(ProgramStatements(program), <<>>),
     files                  |-> <<>>,
     field_buffers          |-> <<>>,
     common_vars            |-> <<>>,
     direct_mode            |-> FALSE,
     variables_             |-> (ERR :> Int16Value(0)) @@ (ERL :> Int16Value(0)),
     error_handler_line     |-> None,
     error_handler_is_gosub |-> FALSE,
     last_error_code        |-> 0,
     last_error_line        |-> 0,
     error_pc               |-> None,
     breakpoints            |-> {},
     break_requested        |-> FALSE]

get_variable(rt, name) ==
    IF name \in DOMAIN rt.variables_ THEN rt.variables_[name]
    ELSE default_for_type(resolve_type(name))

set_variable(rt, name, value) ==
    [rt EXCEPT !.variables_ =
        (name :> coerce_to(value, resolve_type(name))) @@ rt.variables_]

\* unordered_map::erase(key)
map_erase(map, key) == [x \in DOMAIN map \ {key} |-> map[x]]

----------------------------------------------------------------------------
(* interpreter.cpp: helpers of the statement handlers *)

\* thrown is the code of a RuntimeError on its way to the catch block of
\* tick(); fault names any other exception, or an undefined operation, that
\* ends the run of the interpreter
\* executed counts the calls of execute(); nothing of the program reads it
\* chain_request is what the statement has put into state_.chain_request
Machine(rt, io) ==
    [rt |-> rt, io |-> io, thrown |-> None, fault |-> None, executed |-> 0,
     chain_request |-> None]

threw(m) == has_value(m.thrown) \/ has_value(m.fault)

\* an exception that is no RuntimeError leaves the handler
throw_other(m, what) == [m EXCEPT !.fault = Some(what)]

\* throw RuntimeError(code, ...) out of the Runtime
throw_error(m, code) == [m EXCEPT !.thrown = Some(code)]

raise_error(m, code) ==
    [m EXCEPT !.rt.last_error_code = code,
              !.rt.last_error_line = m.rt.pc.line,
              !.thrown = Some(code)]

jump_to(m, line) ==
    LET target == find_line(line)
    IN  IF ~valid(target) THEN raise_error(m, UNDEFINED_LINE)
        ELSE [m EXCEPT !.rt.next_pc = Some(target)]

\* float_equal on whole numbers: a difference of 1 or more is never within
\* abs_epsilon, and is within larger * 1e-6 iff it is at most larger / 10^6
float_equal(a, b) ==
    \/ a = b
    \/ Abs(a - b) <= (IF Abs(a) > Abs(b) THEN Abs(a) ELSE Abs(b)) \div 1000000

\* Interpreter::eval_binary with both operands numeric
eval_binary(op, left, right) ==
    CASE op = "PLUS"      -> DoubleValue(left + right)
      [] op = "EQUAL"     -> DoubleValue(IF float_equal(left, right) THEN -1 ELSE 0)
      [] op = "NOT_EQUAL" -> DoubleValue(IF ~float_equal(left, right) THEN -1 ELSE 0)
      [] op = "LESS_THAN" ->
            DoubleValue(IF left < right /\ ~float_equal(left, right) THEN -1 ELSE 0)
      [] op = "GREATER_THAN" ->
            DoubleValue(IF left > right /\ ~float_equal(left, right) THEN -1 ELSE 0)
      [] op = "LESS_EQUAL" ->
            DoubleValue(IF left < right \/ float_equal(left, right) THEN -1 ELSE 0)
      [] op = "GREATER_EQUAL" ->
            DoubleValue(IF left > right \/ float_equal(left, right) THEN -1 ELSE 0)

\* Interpreter::eval_unary for TokenType::MINUS
eval_unary(op, operand) == DoubleValue(0 - operand)

RECURSIVE eval(_, _)
RECURSIVE get_array(_, _, _)
RECURSIVE get_array_failure(_, _, _)
RECURSIVE auto_dim(_, _, _)

\* to_number(eval(e)) as the fraction num / den it is: the whole numbers of
\* eval, and the literals that are not whole
eval_number(m, e) ==
    IF e.k = "Fraction" THEN [num |-> e.num, den |-> e.den]
    ELSE [num |-> to_number(eval(m, e)), den |-> 1]

\* static_cast<int>(double), the double within the range of int: the
\* fraction is dropped
static_cast_int(q) ==
    IF q.num >= 0 THEN q.num \div q.den ELSE 0 - ((0 - q.num) \div q.den)

\* the subscripts of an ArrayAccessExpr as get_lvalue, set_lvalue and eval
\* hand them to the Runtime
subscripts(m, indices) ==
    [i \in 1..Len(indices) |-> static_cast_int(eval_number(m, indices[i]))]

\* int / int of C++: the quotient is truncated toward zero
int_divide(a, b) ==
    IF (a >= 0) = (b > 0) THEN Abs(a) \div Abs(b) ELSE 0 - (Abs(a) \div Abs(b))

\* int % int of C++: the remainder has the sign of the dividend
int_remainder(a, b) == a - b * int_divide(a, b)

\* left / right of two doubles whose quotient is a whole number
divide(l, r) ==
    LET num == l.num * r.den
        den == l.den * r.num
    IN  IF (num >= 0) = (den > 0) THEN Abs(num) \div Abs(den)
        ELSE 0 - (Abs(num) \div Abs(den))

\* the loop of eval_user_function that sets the parameters to the arguments
RECURSIVE bind_params(_, _, _)
bind_params(rt, params, args) ==
    IF params = <<>> THEN rt
    ELSE bind_params(set_variable(rt, Head(params), Head(args)),
                     Tail(params), Tail(args))

\* Interpreter::eval on the expressions of the model; the operands of the
\* integer division are narrowed with static_cast<int>; the value of a call
\* FN f(args) is the value of the body with the parameters set
eval(m, e) ==
    CASE e.k = "Number"   -> DoubleValue(e.value)
      [] e.k = "String"   -> StringValue(e.value)
      [] e.k = "Variable" -> get_variable(m.rt, e.name)
      [] e.k = "Unary"    -> eval_unary(e.op, to_number(eval(m, e.operand)))
      [] e.k = "FunctionCall" ->
            LET fn == m.rt.user_functions[e.name]
                args == [i \in 1..Len(e.args) |-> eval(m, e.args[i])]
            IN  eval([m EXCEPT !.rt = bind_params(m.rt, fn.params, args)], fn.body)
      [] e.k = "ArrayAccess" -> get_array(m, e.name, subscripts(m, e.indices))
      [] e.k = "Binary" /\ e.op = "BACKSLASH" ->
            DoubleValue(int_divide(static_cast_int(eval_number(m, e.left)),
                                   static_cast_int(eval_number(m, e.right))))
      [] e.k = "Binary" /\ e.op = "MOD" ->
            DoubleValue(int_remainder(static_cast_int(eval_number(m, e.left)),
                                      static_cast_int(eval_number(m, e.right))))
      [] e.k = "Binary" /\ e.op = "DIVIDE" ->
            DoubleValue(divide(eval_number(m, e.left), eval_number(m, e.right)))
      [] e.k = "Binary" /\ e.op = "EQUAL" /\ is_string(eval(m, e.left)) ->
            DoubleValue(IF eval(m, e.left).s = eval(m, e.right).s THEN -1 ELSE 0)
      [] e.k = "Binary" /\ e.op \notin {"BACKSLASH", "MOD", "DIVIDE"}
                        /\ ~(e.op = "EQUAL" /\ is_string(eval(m, e.left))) ->
            eval_binary(e.op, to_number(eval(m, e.left)), to_number(eval(m, e.right)))

RuntimeErrorOf(code) == [kind |-> "RuntimeError", code |-> code, what |-> ""]
Undefined(what) == [kind |-> "undefined", code |-> 0, what |-> what]
Exception(what) == [kind |-> "exception", code |-> 0, what |-> what]
\* a RuntimeError that the Runtime throws itself, without raise_error
Thrown(code) == [kind |-> "thrown", code |-> code, what |-> ""]

\* how the evaluation of an expression fails, None if it does not: the
\* integer division raises Division by zero for a divisor equal to 0 and
\* divides by the int the divisor narrows to
divisor_failure(op, divisor) ==
    IF divisor.num = 0 THEN Some(RuntimeErrorOf(DIVISION_BY_ZERO))
    ELSE IF op # "DIVIDE" /\ static_cast_int(divisor) = 0
    THEN Some(Undefined("integer division by zero"))
    ELSE None

or_else(failure, otherwise) == IF has_value(failure) THEN failure ELSE otherwise

\* how eval_binary fails on operands that have been evaluated
binary_failure(m, e) ==
    IF e.op = "EQUAL"
    THEN IF is_string(eval(m, e.left)) /\ ~is_string(eval(m, e.right))
         THEN Some(Exception("bad_variant_access")) ELSE None
    ELSE IF e.op \notin {"DIVIDE", "BACKSLASH", "MOD"} THEN None
    ELSE divisor_failure(e.op, eval_number(m, e.right))

RECURSIVE eval_failure(_, _)
RECURSIVE first_failure(_, _)
eval_failure(m, e) ==
    CASE e.k \in {"Number", "String", "Variable", "Fraction"} -> None
      [] e.k = "Unary" -> eval_failure(m, e.operand)
      [] e.k = "FunctionCall" ->
            or_else(first_failure(m, e.args),
                    IF e.name \notin DOMAIN m.rt.user_functions
                    THEN Some(RuntimeErrorOf(UNDEFINED_USER_FUNCTION))
                    ELSE IF Len(e.args) # Len(m.rt.user_functions[e.name].params)
                    THEN Some(RuntimeErrorOf(ILLEGAL_FUNCTION_CALL))
                    ELSE eval_failure(
                             [m EXCEPT !.rt = bind_params(
                                 m.rt, m.rt.user_functions[e.name].params,
                                 [i \in 1..Len(e.args) |-> eval(m, e.args[i])])],
                             m.rt.user_functions[e.name].body))
      [] e.k = "ArrayAccess" ->
            or_else(first_failure(m, e.indices),
                    get_array_failure(m, e.name, subscripts(m, e.indices)))
      [] e.k = "Binary" ->
            or_else(eval_failure(m, e.left),
                    or_else(eval_failure(m, e.right), binary_failure(m, e)))

\* the first failure among the expressions a handler evaluates, in its order
first_failure(m, es) ==
    IF es = <<>> THEN None
    ELSE or_else(eval_failure(m, Head(es)), first_failure(m, Tail(es)))

\* the loop of eval_user_function that restores the saved parameters: saved
\* holds the parameters that were variables of the store before
RECURSIVE restore_params(_, _, _)
restore_params(rt, saved, before) ==
    IF saved = <<>> THEN rt
    ELSE restore_params(set_variable(rt, Head(saved), before.variables_[Head(saved)]),
                        Tail(saved), before)

\* Interpreter::eval_user_function, the machine it leaves (eval gives the
\* value): an exception out of the body leaves the function before the
\* saved values are restored
eval_user_function(m, e) ==
    IF \/ has_value(first_failure(m, e.args))
       \/ e.name \notin DOMAIN m.rt.user_functions
    THEN m
    ELSE IF Len(e.args) # Len(m.rt.user_functions[e.name].params) THEN m
    ELSE LET fn == m.rt.user_functions[e.name]
             saved == SelectSeq(fn.params, LAMBDA p : p \in DOMAIN m.rt.variables_)
             bound == [m EXCEPT !.rt = bind_params(
                          m.rt, fn.params,
                          [i \in 1..Len(e.args) |-> eval(m, e.args[i])])]
         IN  IF has_value(eval_failure(bound, fn.body)) THEN bound
             ELSE [bound EXCEPT !.rt = restore_params(bound.rt, saved, m.rt)]

\* the machine after Interpreter::eval(e): of the expressions of the model
\* a call of a user function, which stands alone as the expression of its
\* statement, changes the machine
eval_effect(m, e) ==
    CASE e.k = "FunctionCall" -> eval_user_function(m, e)
      [] e.k = "ArrayAccess" ->
            IF has_value(first_failure(m, e.indices)) THEN m
            ELSE auto_dim(m, e.name, subscripts(m, e.indices))
      [] OTHER -> m

\* the machine after the evaluation of es in order, up to the first that fails
RECURSIVE evaluated(_, _)
RECURSIVE evaluated_from(_, _, _)
evaluated(m, es) ==
    IF es = <<>> THEN m
    ELSE evaluated_from(eval_effect(m, Head(es)), eval_failure(m, Head(es)), Tail(es))

evaluated_from(m, failure, es) == IF has_value(failure) THEN m ELSE evaluated(m, es)

\* Interpreter::set_lvalue on a scalar: v.type is the parser's resolved type
set_lvalue(m, name, val) ==
    [m EXCEPT !.rt = set_variable(m.rt, name, coerce_to(val, resolve_type(name)))]

\* the index of the topmost exec_stack entry of a type, 0 when there is none
TopOfType(stack, type) ==
    LET hits == {i \in 1..Len(stack) : stack[i].type = type}
    IN  IF hits = {} THEN 0 ELSE CHOOSE i \in hits : \A j \in hits : j <= i

\* vector::erase of one element
erase_at(seq, i) == SubSeq(seq, 1, i - 1) \o SubSeq(seq, i + 1, Len(seq))

GosubEntry(return_pc) == [type |-> "GOSUB", return_pc |-> return_pc, loop_pc |-> PC0]
WhileEntry(loop_pc) == [type |-> "WHILE", return_pc |-> PC0, loop_pc |-> loop_pc]

----------------------------------------------------------------------------
(* interpreter.cpp: the statement handlers *)

exec_print(m, s) ==
    [eval_effect(m, s.expression) EXCEPT !.io = Append(m.io, eval(m, s.expression))]

exec_let(m, s) ==
    set_lvalue(eval_effect(m, s.expression), s.target, eval(m, s.expression))

\* the scan of exec_for for the matching NEXT: the PC of that NEXT, or None
\* when the scan leaves the program
RECURSIVE ForScan(_, _, _)
ForScan(scan, depth, for_var_name) ==
    LET nxt == next(scan)
    IN  IF ~valid(nxt) THEN None
        ELSE LET stmt == value_of(get(nxt))
                 d == CASE stmt.k = "FOR" -> depth + 1
                        [] stmt.k = "NEXT" ->
                             IF stmt.variables = <<>> THEN depth - 1
                             ELSE IF \E i \in 1..Len(stmt.variables) :
                                        stmt.variables[i] = for_var_name
                                  THEN depth - 1
                                  ELSE depth
                        [] OTHER -> depth
             IN  IF d > 0 THEN ForScan(nxt, d, for_var_name) ELSE Some(nxt)

exec_for(m, s) ==
    LET start_val == to_number(eval(m, s.start_expr))
        end_val   == to_number(eval(m, s.end_expr))
        step_val  == IF has_value(s.step_expr)
                     THEN to_number(eval(m, value_of(s.step_expr))) ELSE 1
        name      == s.variable
        state     == [resume_pc |-> m.rt.pc, end_value |-> end_val, step_value |-> step_val]
        rt1       == set_variable(m.rt, name, DoubleValue(start_val))
        m2        == [m EXCEPT !.rt = [rt1 EXCEPT !.for_states =
                                          (name :> state) @@ rt1.for_states]]
    IN  IF (step_val > 0 /\ start_val > end_val) \/ (step_val < 0 /\ start_val < end_val)
        THEN LET scan == ForScan(m2.rt.pc, 1, name)
             IN  IF ~has_value(scan) THEN raise_error(m2, FOR_WITHOUT_NEXT)
                 ELSE [m2 EXCEPT !.rt.next_pc = Some(next(value_of(scan))),
                                 !.rt.for_states = map_erase(m2.rt.for_states, name)]
        ELSE m2

\* one round of the loop of exec_next over var_names
next_one(m, var_name) ==
    IF var_name \notin DOMAIN m.rt.for_states THEN raise_error(m, NEXT_WITHOUT_FOR)
    ELSE LET state   == m.rt.for_states[var_name]
             current == to_number(get_variable(m.rt, var_name)) + state.step_value
             rt1     == set_variable(m.rt, var_name, DoubleValue(current))
             done    == IF state.step_value > 0 THEN current > state.end_value
                        ELSE current < state.end_value
         IN  IF done
             THEN [m EXCEPT !.rt = [rt1 EXCEPT !.for_states =
                                       map_erase(rt1.for_states, var_name)]]
             ELSE [m EXCEPT !.rt = [rt1 EXCEPT !.next_pc = Some(next(state.resume_pc))]]

RECURSIVE next_loop(_, _)
next_loop(m, var_names) ==
    IF var_names = <<>> \/ threw(m) THEN m
    ELSE next_loop(next_one(m, Head(var_names)), Tail(var_names))

\* begin_key is the key of for_states.begin(): an unordered_map keeps no
\* insertion order, so the caller may hand in any key of for_states
exec_next(m, s, begin_key) ==
    IF s.variables = <<>>
    THEN IF DOMAIN m.rt.for_states = {} THEN raise_error(m, NEXT_WITHOUT_FOR)
         ELSE next_loop(m, <<begin_key>>)
    ELSE next_loop(m, s.variables)

\* the scan of exec_while for the matching WEND
RECURSIVE WhileScan(_, _)
WhileScan(scan, depth) ==
    LET nxt == next(scan)
    IN  IF ~valid(nxt) THEN None
        ELSE LET stmt == value_of(get(nxt))
                 d == CASE stmt.k = "WHILE" -> depth + 1
                        [] stmt.k = "WEND"  -> depth - 1
                        [] OTHER -> depth
             IN  IF d > 0 THEN WhileScan(nxt, d) ELSE Some(nxt)

exec_while(m, s) ==
    IF to_bool(eval(m, s.condition))
    THEN [m EXCEPT !.rt.exec_stack = Append(m.rt.exec_stack, WhileEntry(m.rt.pc))]
    ELSE LET scan == WhileScan(m.rt.pc, 1)
         IN  IF ~has_value(scan) THEN raise_error(m, WHILE_WITHOUT_WEND)
             ELSE [m EXCEPT !.rt.next_pc = Some(next(value_of(scan)))]

exec_wend(m) ==
    LET i == TopOfType(m.rt.exec_stack, "WHILE")
    IN  IF i = 0 THEN raise_error(m, WEND_WITHOUT_WHILE)
        ELSE [m EXCEPT !.rt.next_pc = Some(m.rt.exec_stack[i].loop_pc),
                       !.rt.exec_stack = erase_at(m.rt.exec_stack, i)]

exec_goto(m, s) == jump_to(m, s.target_line)

exec_gosub(m, s) ==
    jump_to([m EXCEPT !.rt.exec_stack =
                 Append(m.rt.exec_stack, GosubEntry(next(m.rt.pc)))],
            s.target_line)

exec_on_goto(m, s) ==
    LET idx == static_cast_int(eval_number(m, s.selector))
    IN  IF idx >= 1 /\ idx <= Len(s.targets) THEN jump_to(m, s.targets[idx])
        ELSE m

exec_on_gosub(m, s) ==
    LET idx == static_cast_int(eval_number(m, s.selector))
    IN  IF idx >= 1 /\ idx <= Len(s.targets)
        THEN jump_to([m EXCEPT !.rt.exec_stack =
                         Append(m.rt.exec_stack, GosubEntry(next(m.rt.pc)))],
                     s.targets[idx])
        ELSE m

\* exec_return leaving the GOSUB entry on the stack
exec_return_keeping_entry(m, s) ==
    LET i == TopOfType(m.rt.exec_stack, "GOSUB")
    IN  IF i = 0 THEN raise_error(m, RETURN_WITHOUT_GOSUB)
        ELSE [m EXCEPT !.rt.next_pc =
                           IF has_value(s.target_line)
                           THEN Some(find_line(value_of(s.target_line)))
                           ELSE Some(m.rt.exec_stack[i].return_pc)]

exec_return(m, s) ==
    LET i == TopOfType(m.rt.exec_stack, "GOSUB")
    IN  IF i = 0 THEN raise_error(m, RETURN_WITHOUT_GOSUB)
        ELSE [m EXCEPT !.rt.next_pc =
                           IF has_value(s.target_line)
                           THEN Some(find_line(value_of(s.target_line)))
                           ELSE Some(m.rt.exec_stack[i].return_pc),
                       !.rt.exec_stack = erase_at(m.rt.exec_stack, i)]

exec_end(m) ==
    IF has_value(m.rt.error_pc) THEN raise_error(m, NO_RESUME)
    ELSE [m EXCEPT !.rt.pc = halted("END")]

exec_stop(m) == [m EXCEPT !.rt.pc.reason = "STOP"]

exec_rem(m) == m

exec_error(m, s) == raise_error(m, to_number(eval(m, s.error_code)))

exec_on_error(m, s) ==
    [m EXCEPT !.rt.error_handler_line = s.target_line,
              !.rt.error_handler_is_gosub = s.is_gosub]

exec_resume_quietly(m, s) ==
    LET m1 == [m EXCEPT !.rt = set_variable(m.rt, ERR, Int16Value(0))]
    IN  IF ~has_value(m1.rt.error_pc) THEN m1
        ELSE LET m2 == IF s.resume_type = "NEXT"
                       THEN [m1 EXCEPT !.rt.next_pc = Some(next(value_of(m1.rt.error_pc)))]
                       ELSE IF has_value(s.target_line)
                       THEN jump_to(m1, value_of(s.target_line))
                       ELSE [m1 EXCEPT !.rt.next_pc = Some(value_of(m1.rt.error_pc))]
             IN  IF threw(m2) THEN m2 ELSE [m2 EXCEPT !.rt.error_pc = None]

\* exec_resume with RESUME NEXT resuming at error_pc itself
exec_resume_retrying(m, s) ==
    LET m1 == [m EXCEPT !.rt = set_variable(m.rt, ERR, Int16Value(0))]
    IN  IF ~has_value(m1.rt.error_pc) THEN raise_error(m1, RESUME_WITHOUT_ERROR)
        ELSE LET m2 == IF has_value(s.target_line)
                       THEN jump_to(m1, value_of(s.target_line))
                       ELSE [m1 EXCEPT !.rt.next_pc = Some(value_of(m1.rt.error_pc))]
             IN  IF threw(m2) THEN m2 ELSE [m2 EXCEPT !.rt.error_pc = None]

exec_resume(m, s) ==
    LET m1 == [m EXCEPT !.rt = set_variable(m.rt, ERR, Int16Value(0))]
    IN  IF ~has_value(m1.rt.error_pc) THEN raise_error(m1, RESUME_WITHOUT_ERROR)
        ELSE LET m2 == IF s.resume_type = "NEXT"
                       THEN [m1 EXCEPT !.rt.next_pc = Some(next(value_of(m1.rt.error_pc)))]
                       ELSE IF has_value(s.target_line)
                       THEN jump_to(m1, value_of(s.target_line))
                       ELSE [m1 EXCEPT !.rt.next_pc = Some(value_of(m1.rt.error_pc))]
             IN  IF threw(m2) THEN m2 ELSE [m2 EXCEPT !.rt.error_pc = None]

exec_data(m) == IF m.rt.direct_mode THEN raise_error(m, ILLEGAL_DIRECT) ELSE m

\* Runtime::read_data followed by set_lvalue, for each variable in turn
RECURSIVE exec_read_from(_, _)
exec_read_from(m, variables) ==
    IF variables = <<>> THEN m
    ELSE IF m.rt.data_ptr >= Len(m.rt.data_values) THEN throw_error(m, OUT_OF_DATA)
    ELSE exec_read_from(
             set_lvalue([m EXCEPT !.rt.data_ptr = @ + 1], Head(variables),
                        m.rt.data_values[m.rt.data_ptr + 1]),
             Tail(variables))

exec_read(m, s) == exec_read_from(m, s.variables)

\* Runtime::restore_data; without an entry for the line the map is iterated
\* in its own order for the first line number at or after it
restore_data(rt, line) ==
    IF ~has_value(line) THEN [rt EXCEPT !.data_ptr = 0]
    ELSE IF value_of(line) \in DOMAIN rt.data_line_map
    THEN [rt EXCEPT !.data_ptr = rt.data_line_map[value_of(line)]]
    ELSE LET hits == {i \in 1..Len(rt.data_line_order) :
                         rt.data_line_order[i] >= value_of(line)}
         IN  IF hits = {} THEN [rt EXCEPT !.data_ptr = Len(rt.data_values)]
             ELSE [rt EXCEPT !.data_ptr =
                      rt.data_line_map[rt.data_line_order[
                          CHOOSE i \in hits : \A j \in hits : i <= j]]]

exec_restore(m, s) == [m EXCEPT !.rt = restore_data(m.rt, s.target_line)]

\* the product of (dim + 1 - array_base) over the dimensions
RECURSIVE TotalSize(_, _)
TotalSize(dimensions, array_base) ==
    IF dimensions = <<>> THEN 1
    ELSE (Head(dimensions) + 1 - array_base) * TotalSize(Tail(dimensions), array_base)

\* Runtime::dim_array: a negative total converts to a size_t that no vector
\* can take, and resize throws std::length_error
dim_array(m, name, dimensions, type) ==
    IF name \in DOMAIN m.rt.arrays_ THEN throw_error(m, DUPLICATE_DEFINITION)
    ELSE IF TotalSize(dimensions, m.rt.array_base) < 0
    THEN throw_other(m, "length_error")
    ELSE [m EXCEPT !.rt.arrays_ =
             (name :> [dimensions |-> dimensions, type |-> type,
                       data |-> [i \in 1..TotalSize(dimensions, m.rt.array_base)
                                    |-> default_for_type(type)]]) @@ m.rt.arrays_]

\* decl.type is what Parser::parse_dim resolved from the name
exec_dim(m, s) ==
    dim_array(m, s.name,
              [i \in 1..Len(s.dimensions) |-> to_number(eval(m, s.dimensions[i]))],
              resolve_type(s.name))

\* the loop of Runtime::array_index from subscript i down to the first:
\* None when it throws
RECURSIVE IndexLoop(_, _, _, _, _, _)
IndexLoop(rt, arr, indices, i, idx, multiplier) ==
    IF i = 0 THEN Some(idx)
    ELSE LET index == indices[i] - rt.array_base
             dim == arr.dimensions[i] + 1 - rt.array_base
         IN  IF index < 0 \/ index >= dim THEN None
             ELSE IndexLoop(rt, arr, indices, i - 1, idx + index * multiplier,
                            multiplier * dim)

\* the loop of array_index with the multiplier left at 1
RECURSIVE IndexLoopUnscaled(_, _, _, _, _)
IndexLoopUnscaled(rt, arr, indices, i, idx) ==
    IF i = 0 THEN Some(idx)
    ELSE LET index == indices[i] - rt.array_base
             dim == arr.dimensions[i] + 1 - rt.array_base
         IN  IF index < 0 \/ index >= dim THEN None
             ELSE IndexLoopUnscaled(rt, arr, indices, i - 1, idx + index)

\* Runtime::array_index with every subscript counted once
array_index_unscaled(rt, arr, indices) ==
    IF Len(indices) # Len(arr.dimensions) THEN None
    ELSE IndexLoopUnscaled(rt, arr, indices, Len(indices), 0)

\* Runtime::array_index: the position in arr.data, None for
\* throw RuntimeError(SUBSCRIPT_OUT_OF_RANGE)
array_index(rt, arr, indices) ==
    IF Len(indices) # Len(arr.dimensions) THEN None
    ELSE IndexLoop(rt, arr, indices, Len(indices), 0, 1)

\* get_array and set_array dimensioning a new array with the subscripts of
\* the reference as its upper bounds
auto_dim_by_subscript(m, name, indices) ==
    IF name \in DOMAIN m.rt.arrays_ THEN m
    ELSE dim_array(m, name, indices, resolve_type(name))

\* the array set_array and get_array find or create: an array that does not
\* exist is dimensioned with 10 in every dimension
auto_dim(m, name, indices) ==
    IF name \in DOMAIN m.rt.arrays_ THEN m
    ELSE dim_array(m, name, [i \in 1..Len(indices) |-> 10], resolve_type(name))

\* Runtime::set_array: arr.data[idx] past the end of the vector is undefined
set_array(m, name, indices, value) ==
    LET m1 == auto_dim(m, name, indices)
    IN  IF threw(m1) THEN m1
        ELSE LET arr == m1.rt.arrays_[name]
                 idx == array_index(m1.rt, arr, indices)
             IN  IF ~has_value(idx) THEN throw_error(m1, SUBSCRIPT_OUT_OF_RANGE)
                 ELSE IF value_of(idx) >= Len(arr.data)
                 THEN throw_other(m1, "write past the end of arr.data")
                 ELSE [m1 EXCEPT !.rt.arrays_[name].data[value_of(idx) + 1] =
                                     coerce_to(value, arr.type)]

\* Runtime::get_array: arr.data[idx] past the end of the vector is undefined
get_array(m, name, indices) ==
    auto_dim(m, name, indices).rt.arrays_[name].data[
        value_of(array_index(auto_dim(m, name, indices).rt,
                             auto_dim(m, name, indices).rt.arrays_[name], indices)) + 1]

\* how get_array fails on an array that exists or can be created
array_failure(rt, arr, idx) ==
    IF ~has_value(idx) THEN Some(Thrown(SUBSCRIPT_OUT_OF_RANGE))
    ELSE IF value_of(idx) >= Len(arr.data)
    THEN Some(Undefined("read past the end of arr.data"))
    ELSE None

get_array_failure(m, name, indices) ==
    array_failure(auto_dim(m, name, indices).rt,
                  auto_dim(m, name, indices).rt.arrays_[name],
                  array_index(auto_dim(m, name, indices).rt,
                              auto_dim(m, name, indices).rt.arrays_[name], indices))

\* Interpreter::set_lvalue on an ArrayAccessExpr
set_lvalue_element(m, name, indices, val) ==
    set_array(m, name,
              [i \in 1..Len(indices) |-> static_cast_int(eval_number(m, indices[i]))],
              val)

\* Interpreter::exec_let with an ArrayAccessExpr as the target
exec_let_element(m, s) ==
    set_lvalue_element(m, s.target, s.indices, eval(m, s.expression))

exec_option_base(m, s) == [m EXCEPT !.rt.array_base = s.base]

\* Interpreter::exec_erase: unordered_map::erase of every name
exec_erase(m, s) ==
    [m EXCEPT !.rt.arrays_ = [name \in DOMAIN @ \ {s.arrays[i] : i \in 1..Len(s.arrays)}
                                 |-> @[name]]]

Min(x, y) == IF x < y THEN x ELSE y

\* an int as the size_t count of std::string::substr and replace, which
\* take the smaller of count and what the string has from pos on: a negative
\* int converts to a size_t above every length
count_from(str, pos, count) ==
    IF count < 0 THEN Len(str) - pos ELSE Min(count, Len(str) - pos)

\* std::string::substr(pos, count), pos <= size()
substr(str, pos, count) == SubSeq(str, pos + 1, pos + count_from(str, pos, count))

\* std::string::replace(pos, count, with), pos <= size()
replace(str, pos, count, with) ==
    SubSeq(str, 1, pos) \o with
        \o SubSeq(str, pos + count_from(str, pos, count) + 1, Len(str))

\* Interpreter::exec_mid_assign: the strings are sequences of bytes;
\* std::get<std::string> of a number throws std::bad_variant_access
exec_mid_assign(m, s) ==
    LET current     == get_variable(m.rt, s.variable)
        replacement == eval(m, s.replacement)
        start       == static_cast_int(eval_number(m, s.start)) - 1
        length0     == IF has_value(s.length)
                       THEN static_cast_int(eval_number(m, value_of(s.length)))
                       ELSE Len(replacement.s)
        length1     == Min(length0, Len(current.s) - start)
        length      == Min(length1, Len(replacement.s))
    IN  IF ~is_string(current) \/ ~is_string(replacement)
        THEN throw_other(m, "bad_variant_access")
        ELSE IF start >= 0 /\ start < Len(current.s)
        THEN [m EXCEPT !.rt = set_variable(
                 m.rt, s.variable,
                 StringValue(replace(current.s, start, length,
                                     substr(replacement.s, 0, length))))]
        ELSE [m EXCEPT !.rt = set_variable(m.rt, s.variable, current)]

exec_def_fn(m) == IF m.rt.direct_mode THEN raise_error(m, ILLEGAL_DIRECT) ELSE m

\* Runtime::reset with the FOR records kept
reset_keeping_for_states(rt) ==
    [rt EXCEPT !.variables_ = (ERR :> rt.variables_[ERR]) @@ (ERL :> rt.variables_[ERL]),
               !.arrays_ = <<>>,
               !.pc = first(statements),
               !.next_pc = None,
               !.exec_stack = <<>>,
               !.data_ptr = 0,
               !.array_base = 0,
               !.break_requested = FALSE,
               !.error_handler_line = None,
               !.error_handler_is_gosub = FALSE,
               !.files = <<>>,
               !.field_buffers = <<>>]

\* Runtime::reset
reset(rt) ==
    [rt EXCEPT !.variables_ = (ERR :> rt.variables_[ERR]) @@ (ERL :> rt.variables_[ERL]),
               !.arrays_ = <<>>,
               !.pc = first(statements),
               !.next_pc = None,
               !.exec_stack = <<>>,
               !.for_states = <<>>,
               !.data_ptr = 0,
               !.array_base = 0,
               !.break_requested = FALSE,
               !.error_handler_line = None,
               !.error_handler_is_gosub = FALSE,
               !.files = <<>>,
               !.field_buffers = <<>>]

exec_clear(m) == [m EXCEPT !.rt = reset(m.rt)]

\* the files an OPEN for INPUT finds
ExistingFiles == {"IN"}

\* Interpreter::exec_open for INPUT and OUTPUT with fewer than 15 files open:
\* std::get<std::string> of a number throws std::bad_variant_access; an
\* fstream that is open already fails to open again and stays open
exec_open(m, s) ==
    LET name == eval(m, s.filename)
        filenum == to_number(eval(m, s.file_number))
        opened == IF filenum \in DOMAIN m.rt.files THEN m.rt.files[filenum].is_open
                  ELSE FALSE
        found == s.mode = "OUTPUT" \/ name.s \in ExistingFiles
    IN  IF ~is_string(name) THEN throw_other(m, "bad_variant_access")
        ELSE IF name.s = "" THEN raise_error(m, BAD_FILE_NAME)
        ELSE IF filenum < 1 \/ filenum > 15 THEN raise_error(m, BAD_FILE_NUMBER)
        ELSE IF opened \/ ~found
        THEN raise_error([m EXCEPT !.rt.files =
                             (filenum :> [is_open |-> opened, fail |-> TRUE]) @@ @],
                         FILE_NOT_FOUND)
        ELSE [m EXCEPT !.rt.files = (filenum :> [is_open |-> TRUE, fail |-> FALSE]) @@ @]

\* the loop of exec_close over the file numbers
RECURSIVE close_files(_, _)
close_files(rt, nums) ==
    IF nums = <<>> THEN rt
    ELSE close_files([rt EXCEPT !.files = map_erase(rt.files, Head(nums))], Tail(nums))

\* Interpreter::exec_close
exec_close(m, s) ==
    IF s.file_numbers = <<>> THEN [m EXCEPT !.rt.files = <<>>]
    ELSE [m EXCEPT !.rt = close_files(
             m.rt, [i \in 1..Len(s.file_numbers) |->
                       static_cast_int(eval_number(m, s.file_numbers[i]))])]

\* the loop of exec_field over the fields: the mapping of each variable to
\* its offset and width
RECURSIVE field_map(_, _, _)
field_map(fields, widths, offset) ==
    IF fields = <<>> THEN <<>>
    ELSE field_map(Tail(fields), Tail(widths), offset + Head(widths))
             @@ (Head(fields).variable :> [offset |-> offset, width |-> Head(widths)])

RECURSIVE Sum(_)
Sum(seq) == IF seq = <<>> THEN 0 ELSE Head(seq) + Sum(Tail(seq))

SPACE == 32

\* Interpreter::exec_field: the buffer is a sequence of bytes
exec_field(m, s) ==
    LET filenum == static_cast_int(eval_number(m, s.file_number))
        widths == [i \in 1..Len(s.fields) |->
                      static_cast_int(eval_number(m, s.fields[i].width))]
    IN  IF filenum \notin DOMAIN m.rt.files THEN raise_error(m, BAD_FILE_NUMBER)
        ELSE IF ~m.rt.files[filenum].is_open THEN raise_error(m, BAD_FILE_NUMBER)
        ELSE [m EXCEPT !.rt.field_buffers =
                 (filenum :> [fields |-> field_map(s.fields, widths, 0),
                              buffer |-> [i \in 1..Sum(widths) |-> SPACE],
                              current_record |-> 0]) @@ @]

\* val as exec_lset stores it in a field of a width: padded on the right or
\* cut
left_justify(val, width) ==
    IF Len(val) < width THEN val \o [i \in 1..(width - Len(val)) |-> SPACE]
    ELSE SubSeq(val, 1, width)

\* Interpreter::exec_lset: of the buffers that hold the variable the one that
\* the iteration of field_buffers meets first; the programs of the model put
\* a variable into one buffer at most
exec_lset(m, s) ==
    LET val == eval(m, s.value)
        holders == {n \in DOMAIN m.rt.field_buffers :
                       s.variable \in DOMAIN m.rt.field_buffers[n].fields}
    IN  IF ~is_string(val) THEN throw_other(m, "bad_variant_access")
        ELSE IF holders = {}
        THEN [m EXCEPT !.rt = set_variable(m.rt, s.variable, val)]
        ELSE LET filenum == CHOOSE n \in holders : TRUE
                 pos == m.rt.field_buffers[filenum].fields[s.variable]
                 padded == left_justify(val.s, pos.width)
             IN  [m EXCEPT !.rt = set_variable(
                      [m.rt EXCEPT !.field_buffers[filenum].buffer =
                          [i \in DOMAIN @ |->
                              IF i > pos.offset /\ i <= pos.offset + pos.width
                              THEN padded[i - pos.offset] ELSE @[i]]],
                      s.variable, StringValue(padded))]

\* the loop of exec_common: a name that is in the list already is not added
RECURSIVE add_common(_, _)
add_common(common_vars, names) ==
    IF names = <<>> THEN common_vars
    ELSE add_common(IF \E i \in 1..Len(common_vars) : common_vars[i] = Head(names)
                    THEN common_vars ELSE Append(common_vars, Head(names)),
                    Tail(names))

exec_common(m, s) == [m EXCEPT !.rt.common_vars = add_common(@, s.variables)]

\* Interpreter::exec_chain
exec_chain(m, s) ==
    IF ~is_string(eval(m, s.filename)) THEN throw_other(m, "bad_variant_access")
    ELSE [m EXCEPT !.chain_request =
                       Some([filename |-> eval(m, s.filename).s,
                             line_number |->
                                 IF has_value(s.line_number)
                                 THEN Some(static_cast_int(
                                          eval_number(m, value_of(s.line_number))))
                                 ELSE None,
                             all |-> s.all,
                             merge |-> s.merge]),
                  !.rt.pc.reason = "END"]

RECURSIVE execute(_, _, _)
RECURSIVE execute_statement(_, _, _)
RECURSIVE execute_checked(_, _, _, _, _)

\* the loops of exec_if over then_stmts and else_stmts: an exception leaves
\* the loop, a halted PC ends it
RECURSIVE exec_inline(_, _, _)
exec_inline(m, stmts, begin_key) ==
    IF stmts = <<>> THEN m
    ELSE LET m2 == execute(m, Head(stmts), begin_key)
         IN  IF threw(m2) \/ ~is_running(m2.rt.pc) THEN m2
             ELSE exec_inline(m2, Tail(stmts), begin_key)

exec_if(m, s, begin_key) ==
    IF to_bool(eval(m, s.condition))
    THEN IF has_value(s.then_line) THEN jump_to(m, value_of(s.then_line))
         ELSE exec_inline(m, s.then_stmts, begin_key)
    ELSE IF has_value(s.else_line) THEN jump_to(m, value_of(s.else_line))
         ELSE exec_inline(m, s.else_stmts, begin_key)

\* the expressions a handler evaluates: every handler evaluates them before
\* it changes anything
Evaluated(s) ==
    CASE s.k \in {"PRINT", "LET"} -> <<s.expression>>
      [] s.k = "LET_ELEMENT" -> <<s.expression>> \o s.indices
      [] s.k = "CLOSE" -> s.file_numbers
      [] s.k = "CHAIN" ->
            <<s.filename>>
                \o (IF has_value(s.line_number) THEN <<value_of(s.line_number)>> ELSE <<>>)
      [] s.k = "FIELD" ->
            <<s.file_number>> \o [i \in 1..Len(s.fields) |-> s.fields[i].width]
      [] s.k = "LSET" -> <<s.value>>
      [] s.k = "MID_ASSIGN" ->
            <<s.replacement, s.start>>
                \o (IF has_value(s.length) THEN <<value_of(s.length)>> ELSE <<>>)
      [] s.k \in {"IF", "WHILE"} -> <<s.condition>>
      [] s.k = "FOR" ->
            <<s.start_expr, s.end_expr>>
                \o (IF has_value(s.step_expr) THEN <<value_of(s.step_expr)>> ELSE <<>>)
      [] s.k \in {"ON_GOTO", "ON_GOSUB"} -> <<s.selector>>
      [] s.k = "ERROR" -> <<s.error_code>>
      [] s.k = "DIM" -> s.dimensions
      [] s.k = "OPEN" -> <<s.filename, s.file_number>>
      [] OTHER -> <<>>

\* Interpreter::execute: the dispatch on the statement's kind; an exception
\* out of eval() leaves the handler at once
execute(m0, s, begin_key) ==
    execute_checked([m0 EXCEPT !.executed = @ + 1], s, begin_key,
                    first_failure(m0, Evaluated(s)),
                    evaluated([m0 EXCEPT !.executed = @ + 1], Evaluated(s)))

\* execute once it is known how the expressions of the statement fail and
\* what their evaluation leaves behind
execute_checked(m, s, begin_key, failure, left) ==
    CASE has_value(failure) /\ value_of(failure).kind = "RuntimeError" ->
            raise_error(left, value_of(failure).code)
      [] has_value(failure) /\ value_of(failure).kind = "thrown" ->
            throw_error(left, value_of(failure).code)
      [] has_value(failure) /\ value_of(failure).kind \notin {"RuntimeError", "thrown"} ->
            throw_other(left, value_of(failure).what)
      [] ~has_value(failure) -> execute_statement(m, s, begin_key)

\* the handlers behind the dispatch of execute
execute_statement(m, s, begin_key) ==
    CASE s.k = "PRINT"    -> exec_print(m, s)
      [] s.k = "IF"       -> exec_if(m, s, begin_key)
      [] s.k = "LET"      -> exec_let(m, s)
      [] s.k = "FOR"      -> exec_for(m, s)
      [] s.k = "NEXT"     -> exec_next(m, s, begin_key)
      [] s.k = "WHILE"    -> exec_while(m, s)
      [] s.k = "WEND"     -> exec_wend(m)
      [] s.k = "GOTO"     -> exec_goto(m, s)
      [] s.k = "GOSUB"    -> exec_gosub(m, s)
      [] s.k = "ON_GOTO"  -> exec_on_goto(m, s)
      [] s.k = "ON_GOSUB" -> exec_on_gosub(m, s)
      [] s.k = "RETURN"   -> exec_return(m, s)
      [] s.k = "END"      -> exec_end(m)
      [] s.k = "STOP"     -> exec_stop(m)
      [] s.k = "REM"      -> exec_rem(m)
      [] s.k = "ERROR"    -> exec_error(m, s)
      [] s.k = "ON_ERROR" -> exec_on_error(m, s)
      [] s.k = "RESUME"   -> exec_resume(m, s)
      [] s.k = "DATA"     -> exec_data(m)
      [] s.k = "READ"     -> exec_read(m, s)
      [] s.k = "RESTORE"  -> exec_restore(m, s)
      [] s.k = "DIM"      -> exec_dim(m, s)
      [] s.k = "DEF_FN"   -> exec_def_fn(m)
      [] s.k = "CLEAR"    -> exec_clear(m)
      [] s.k = "OPEN"     -> exec_open(m, s)
      [] s.k = "LET_ELEMENT" -> exec_let_element(m, s)
      [] s.k = "OPTION_BASE" -> exec_option_base(m, s)
      [] s.k = "ERASE"       -> exec_erase(m, s)
      [] s.k = "MID_ASSIGN"  -> exec_mid_assign(m, s)
      [] s.k = "CLOSE"       -> exec_close(m, s)
      [] s.k = "FIELD"       -> exec_field(m, s)
      [] s.k = "LSET"        -> exec_lset(m, s)
      [] s.k = "COMMON"      -> exec_common(m, s)
      [] s.k = "CHAIN"       -> exec_chain(m, s)

----------------------------------------------------------------------------
(* interpreter.cpp: the tick loop *)

advance_pc(rt) ==
    IF has_value(rt.next_pc)
    THEN [rt EXCEPT !.pc = value_of(rt.next_pc), !.next_pc = None]
    ELSE IF is_running(rt.pc) THEN [rt EXCEPT !.pc = next(rt.pc)]
    ELSE rt

\* std::set<PC>::count: PC::operator< orders by (line, stmt) alone
at_breakpoint(rt) ==
    \E bp \in rt.breakpoints : bp.line = rt.pc.line /\ bp.stmt = rt.pc.stmt

\* the InterpreterState after construction
InterpreterState0 ==
    [error                |-> None,
     statements_executed  |-> 0,
     pause_requested      |-> FALSE,
     skip_next_breakpoint |-> FALSE,
     chain_request        |-> None]

\* the catch block of tick() with a handler installed: m is the machine as
\* the throwing statement left it
trap_error(m) ==
    LET rt1 == set_variable(m.rt, ERR, Int16Value(int16_cast(value_of(m.thrown))))
        rt2 == set_variable(rt1, ERL, Int16Value(int16_cast(rt1.pc.line)))
        rt3 == [rt2 EXCEPT !.error_pc = Some(rt2.pc)]
        rt4 == IF rt3.error_handler_is_gosub
               THEN [rt3 EXCEPT !.exec_stack = Append(rt3.exec_stack, GosubEntry(next(rt3.pc)))]
               ELSE rt3
    IN  [rt4 EXCEPT !.next_pc = Some(find_line(value_of(rt4.error_handler_line)))]

\* the catch block with no handler installed, leaving the error unrecorded
untrapped_error_unrecorded(m, st) ==
    [rt |-> [m.rt EXCEPT !.pc.reason = "ERROR"], st |-> st, io |-> m.io]

\* the catch block of tick() with no handler installed
untrapped_error(m, st) ==
    [rt |-> [m.rt EXCEPT !.pc.reason = "ERROR"],
     st |-> [st EXCEPT !.error = Some([code |-> value_of(m.thrown), pc |-> m.rt.pc])],
     io |-> m.io]

\* tick() from the return of execute() on: m is the machine as the statement
\* left it
finish_tick(m, st1) ==
    IF has_value(m.fault)
    THEN [rt |-> m.rt, st |-> st1, io |-> m.io]
    ELSE IF ~threw(m)
    THEN [rt |-> advance_pc(m.rt),
          st |-> [st1 EXCEPT !.statements_executed = @ + 1,
                             !.chain_request =
                                 IF has_value(m.chain_request) THEN m.chain_request
                                 ELSE @],
          io |-> m.io]
    ELSE IF has_value(m.rt.error_handler_line)
    THEN [rt |-> advance_pc(trap_error(m)), st |-> st1, io |-> m.io]
    ELSE untrapped_error(m, st1)

\* Interpreter::tick without the reset of skip_next_breakpoint
tick_keeping_skip(rt, st, io, begin_key) ==
    IF ~is_running(rt.pc) THEN [rt |-> rt, st |-> st, io |-> io]
    ELSE IF st.pause_requested
    THEN [rt |-> [rt EXCEPT !.pc.reason = "STOP"], st |-> st, io |-> io]
    ELSE IF rt.break_requested
    THEN [rt |-> [rt EXCEPT !.break_requested = FALSE, !.pc.reason = "BREAK"],
          st |-> st, io |-> io]
    ELSE IF at_breakpoint(rt) /\ ~st.skip_next_breakpoint
    THEN [rt |-> [rt EXCEPT !.pc.reason = "BREAKPOINT"],
          st |-> [st EXCEPT !.skip_next_breakpoint = TRUE], io |-> io]
    ELSE IF ~has_value(get(rt.pc))
    THEN [rt |-> [rt EXCEPT !.pc = halted("END")], st |-> st, io |-> io]
    ELSE finish_tick(execute(Machine(rt, io), value_of(get(rt.pc)), begin_key), st)

\* Interpreter::tick, as the record of what it leaves behind
tick(rt, st, io, begin_key) ==
    IF ~is_running(rt.pc) THEN [rt |-> rt, st |-> st, io |-> io]
    ELSE IF st.pause_requested
    THEN [rt |-> [rt EXCEPT !.pc.reason = "STOP"], st |-> st, io |-> io]
    ELSE IF rt.break_requested
    THEN [rt |-> [rt EXCEPT !.break_requested = FALSE, !.pc.reason = "BREAK"],
          st |-> st, io |-> io]
    ELSE IF at_breakpoint(rt) /\ ~st.skip_next_breakpoint
    THEN [rt |-> [rt EXCEPT !.pc.reason = "BREAKPOINT"],
          st |-> [st EXCEPT !.skip_next_breakpoint = TRUE], io |-> io]
    ELSE LET st1  == [st EXCEPT !.skip_next_breakpoint = FALSE]
             stmt == get(rt.pc)
         IN  IF ~has_value(stmt)
             THEN [rt |-> [rt EXCEPT !.pc = halted("END")], st |-> st1, io |-> io]
             ELSE finish_tick(execute(Machine(rt, io), value_of(stmt), begin_key), st1)

----------------------------------------------------------------------------
(* History: what the ticks so far have executed.  Nothing of the program   *)
(* reads it.                                                               *)

Hist0 ==
    [ticks     |-> 0,      \* calls of tick() with a running PC
     gosubs    |-> 0,      \* GOSUB statements executed
     returns   |-> 0,      \* RETURN statements that returned
     whiles    |-> 0,      \* WHILE statements that found their condition true
     wends     |-> 0,      \* WEND statements that looped back
     traps     |-> 0,      \* pseudo-GOSUB frames pushed by trapped errors
     for_order |-> <<>>,   \* the active FOR variables, most recently entered last
     true_whiles |-> {},   \* the WHILE statements whose last check was true
     idle      |-> 0,      \* calls of tick() with a halted PC
     conts     |-> 0,      \* CONT commands
     break_pending |-> FALSE,  \* a break was requested and no tick has halted
                               \* with BREAK since
     cont_from |-> None,   \* the PC of the STOP statement CONT has just
                           \* continued from
     walk      |-> <<>>,   \* the PCs that first() and next() have produced since
                           \* the table was built or merged
     merges    |-> 0,      \* merges into the statement table
     stopped   |-> FALSE,  \* the driver has called stop()
     beat      |-> FALSE,  \* flips with every iteration of the loop of run()
     broke_at  |-> None,   \* the PC of the last halt with BREAKPOINT, as long as
                           \* no statement has executed since
     last      |-> None]   \* the last tick's statement, its PC and what it threw

\* does this tick get as far as executing a statement?
Executes ==
    /\ is_running(runtime_.pc)
    /\ ~state_.pause_requested
    /\ ~runtime_.break_requested
    /\ ~(at_breakpoint(runtime_) /\ ~state_.skip_next_breakpoint)
    /\ has_value(get(runtime_.pc))

\* the statement this tick executes, and the machine as it leaves it
Current == value_of(get(runtime_.pc))
After(begin_key) == execute(Machine(runtime_, io_), Current, begin_key)

SeqWithout(seq, x) == SelectSeq(seq, LAMBDA y : y # x)

Bump(b) == IF b THEN 1 ELSE 0

\* the FOR variables in the order of entry once s has executed
ForOrder(s) ==
    IF s.k = "FOR" THEN Append(SeqWithout(hist.for_order, s.variable), s.variable)
    ELSE hist.for_order

\* the history after a tick that executed s and left the machine m
HistAfter(s, m) ==
             [ticks     |-> hist.ticks + 1,
              gosubs    |-> hist.gosubs + Bump(s.k = "GOSUB" /\ ~threw(m)),
              returns   |-> hist.returns + Bump(s.k = "RETURN" /\ ~threw(m)),
              whiles    |-> hist.whiles + Bump(s.k = "WHILE" /\ ~threw(m)
                                               /\ ~has_value(m.rt.next_pc)),
              wends     |-> hist.wends + Bump(s.k = "WEND" /\ ~threw(m)),
              traps     |-> hist.traps + Bump(has_value(m.thrown)
                                              /\ has_value(m.rt.error_handler_line)
                                              /\ m.rt.error_handler_is_gosub),
              for_order |-> SelectSeq(ForOrder(s), LAMBDA v : v \in DOMAIN m.rt.for_states),
              true_whiles |->
                  IF s.k # "WHILE" THEN hist.true_whiles
                  ELSE IF to_bool(eval(Machine(runtime_, io_), s.condition))
                  THEN hist.true_whiles \cup {runtime_.pc}
                  ELSE hist.true_whiles \ {runtime_.pc},
              idle      |-> hist.idle,
              conts     |-> hist.conts,
              break_pending |-> hist.break_pending,
              cont_from |-> None,
              walk      |-> hist.walk,
              merges    |-> hist.merges,
              stopped   |-> hist.stopped,
              beat      |-> hist.beat,
              broke_at  |-> None,
              last      |-> Some([stmt |-> s, pc |-> runtime_.pc, thrown |-> m.thrown])]

\* the history after a tick; m is the machine as it leaves the statement of
\* a tick that executes one
HistNext(m) ==
    IF ~Executes
    THEN [hist EXCEPT !.ticks = @ + 1, !.last = None, !.cont_from = None,
                      !.broke_at =
                          IF runtime_'.pc.reason = "BREAKPOINT"
                          THEN Some(running_at(runtime_'.pc.line, runtime_'.pc.stmt))
                          ELSE @,
                      !.break_pending =
                          IF ~state_.pause_requested /\ runtime_.break_requested
                          THEN FALSE ELSE @]
    ELSE HistAfter(Current, m)

----------------------------------------------------------------------------
(* The state machine *)

\* what for_states.begin() may be
BeginKeys(for_states) == IF DOMAIN for_states = {} THEN {<<>>} ELSE DOMAIN for_states

\* the state after Runtime::load(program), the driver having put one of
\* breakpoint_sets into Runtime::breakpoints
InitWithBreakpoints(programs, breakpoint_sets) ==
    \E program \in programs, breakpoints \in breakpoint_sets :
      \E data_line_order \in IterationOrders(
              DOMAIN collect_data(ProgramStatements(program), <<>>, <<>>).data_line_map) :
        /\ statements = build(program)
        /\ runtime_ = [load(program, data_line_order) EXCEPT !.breakpoints = breakpoints]
        /\ state_ = InterpreterState0
        /\ io_ = <<>>
        /\ escaped = None
        /\ hist = Hist0

InitWith(programs) == InitWithBreakpoints(programs, {{}})

\* what a call of tick() leaves behind
Leaves(r) ==
    /\ runtime_' = r.rt
    /\ state_' = r.st
    /\ io_' = r.io

\* what the model keeps of a call of tick(): m is the machine as it leaves
\* the statement of a tick that executes one
Records(m) ==
    /\ escaped' = IF Executes THEN m.fault ELSE None
    /\ hist' = HistNext(m)

\* one call of tick() while the PC is RUNNING; a call with a halted PC changes
\* nothing
Tick ==
    /\ is_running(runtime_.pc)
    /\ ~has_value(escaped)
    /\ hist.ticks < MaxTicks
    /\ \E begin_key \in BeginKeys(runtime_.for_states) :
          /\ Leaves(tick(runtime_, state_, io_, begin_key))
          /\ Records(After(begin_key))
    /\ UNCHANGED statements

Next == Tick

\* one call of tick() while the PC is halted
TickHalted ==
    /\ ~is_running(runtime_.pc)
    /\ ~has_value(escaped)
    /\ hist.idle < MaxIdle
    /\ \E begin_key \in BeginKeys(runtime_.for_states) :
          Leaves(tick(runtime_, state_, io_, begin_key))
    /\ hist' = [hist EXCEPT !.idle = @ + 1]
    /\ UNCHANGED <<statements, escaped>>

\* the external source sets Runtime::break_requested between two ticks
RequestBreak ==
    /\ ~runtime_.break_requested
    /\ ~has_value(escaped)
    /\ runtime_' = [runtime_ EXCEPT !.break_requested = TRUE]
    /\ hist' = [hist EXCEPT !.break_pending = TRUE]
    /\ UNCHANGED <<statements, state_, io_, escaped>>

RecordsBreak(m) ==
    /\ escaped' = m.fault
    /\ hist' = [HistNext(m) EXCEPT !.break_pending = TRUE]

\* one call of tick() during which the external source sets break_requested,
\* after the check of the flag and before the body of the statement
BreakDuringTick ==
    /\ Executes
    /\ ~has_value(escaped)
    /\ hist.ticks < MaxTicks
    /\ \E begin_key \in BeginKeys(runtime_.for_states) :
          /\ Leaves(finish_tick(
                        execute(Machine([runtime_ EXCEPT !.break_requested = TRUE], io_),
                                Current, begin_key),
                        [state_ EXCEPT !.skip_next_breakpoint = FALSE]))
          /\ RecordsBreak(After(begin_key))
    /\ UNCHANGED statements

\* BasicSession::cont up to its call of run(): the ticks of run() follow
cont ==
    /\ ~is_running(runtime_.pc)
    /\ runtime_.pc.reason # "END"
    /\ ~has_value(escaped)
    /\ hist.conts < MaxConts
    /\ runtime_' = [runtime_ EXCEPT !.pc.reason = "RUNNING"]
    /\ hist' = [hist EXCEPT !.conts = @ + 1, !.cont_from =
                    IF runtime_.pc.reason = "STOP" /\ has_value(hist.last)
                       /\ value_of(hist.last).stmt.k = "STOP"
                    THEN Some(value_of(hist.last).pc) ELSE None]
    /\ UNCHANGED <<statements, state_, io_, escaped>>

\* Interpreter::pause
pause ==
    /\ ~state_.pause_requested
    /\ ~has_value(escaped)
    /\ state_' = [state_ EXCEPT !.pause_requested = TRUE]
    /\ UNCHANGED <<statements, runtime_, io_, escaped, hist>>

\* Interpreter::resume
resume ==
    /\ state_.pause_requested
    /\ state_' = [state_ EXCEPT !.pause_requested = FALSE]
    /\ UNCHANGED <<statements, runtime_, io_, escaped, hist>>

\* Interpreter::stop leaving the PC halted with reason STOP
stop_with_stop ==
    /\ ~hist.stopped
    /\ ~has_value(escaped)
    /\ runtime_' = [runtime_ EXCEPT !.pc = halted("STOP")]
    /\ hist' = [hist EXCEPT !.stopped = TRUE]
    /\ UNCHANGED <<statements, state_, io_, escaped>>

\* Interpreter::stop, called by the driver between two ticks
stop ==
    /\ ~hist.stopped
    /\ ~has_value(escaped)
    /\ runtime_' = [runtime_ EXCEPT !.pc = halted("END")]
    /\ hist' = [hist EXCEPT !.stopped = TRUE]
    /\ UNCHANGED <<statements, state_, io_, escaped>>

\* the interpreter under its driver and the source of breaks
NextDriven ==
    \/ Tick
    \/ TickHalted
    \/ RequestBreak
    \/ BreakDuringTick
    \/ cont
    \/ pause
    \/ resume

----------------------------------------------------------------------------
(* Programs that trap, resume and fail.  base moves the whole program to   *)
(* high line numbers; joined puts the second and third statement on one    *)
(* line.                                                                   *)
(*                                                                         *)
(*     base+10   s1      ON ERROR ... | REM                                *)
(*     base+20   s2      the failing statement                             *)
(*     base+30   s3                                                        *)
(*     base+100  s4      the handler                                       *)
(*     base+110  s5                                                        *)

ErrSlot1(base) ==
    {RemStmt, parse_on_error(0, FALSE), parse_on_error(base + 100, FALSE),
     parse_on_error(base + 100, TRUE), parse_on_error(base + 999, FALSE)}

ErrSlot2(base) ==
    {ErrorStmt(NumberExpr(5)), GotoStmt(base + 999), parse_resume(FALSE, None),
     PrintStmt(NumberExpr(1)), parse_on_error(0, FALSE)}

ErrSlot3 == {PrintStmt(NumberExpr(2)), EndStmt, ErrorStmt(NumberExpr(7))}

ErrSlot4 == {PrintStmt(NumberExpr(3)), parse_on_error(0, FALSE), RemStmt}

ErrSlot5(base) ==
    {parse_resume(FALSE, None), parse_resume(TRUE, None),
     parse_resume(FALSE, Some(base + 30)), parse_resume(FALSE, Some(base + 999)), EndStmt, ErrorStmt(NumberExpr(6)), RemStmt,
     ReturnStmt(None)}

ErrProgram(base, joined, s1, s2, s3, s4, s5) ==
    <<Line(base + 10, <<s1>>)>>
    \o (IF joined THEN <<Line(base + 20, <<s2, s3>>)>>
        ELSE <<Line(base + 20, <<s2>>), Line(base + 30, <<s3>>)>>)
    \o <<Line(base + 100, <<s4>>), Line(base + 110, <<s5>>)>>

ErrPrograms ==
    UNION {{ErrProgram(base, joined, s1, s2, s3, s4, s5) :
                s1 \in ErrSlot1(base), s2 \in ErrSlot2(base), s3 \in ErrSlot3,
                s4 \in ErrSlot4, s5 \in ErrSlot5(base)} :
           base \in {0, 40000}, joined \in BOOLEAN}

InitErr == InitWith(ErrPrograms)
SpecErr == InitErr /\ [][Next]_vars

----------------------------------------------------------------------------
(* Error trapping and RESUME *)

\* the machine after this tick's statement, for a statement that does not
\* consult for_states.begin()
AfterStmt == After(CHOOSE key \in BeginKeys(runtime_.for_states) : TRUE)

\* this tick's statement raises a runtime error
Raises == Executes /\ threw(AfterStmt)
RaisedCode == value_of(AfterStmt.thrown)

LineExists(n) == valid(find_line(n))

HandlerLine == value_of(runtime_.error_handler_line)

\* C1: when a statement raises a runtime error while a handler is installed
\* on an existing line n, the same tick sets ERR to the error code and ERL to
\* the line of the failing statement, captures error_pc = the failing PC and
\* makes the first statement of line n the next one to execute, pushing a
\* GOSUB frame first iff the handler was declared with GOSUB.
C1_TrapSetsErrErlAndJumps ==
    [][(Raises /\ has_value(runtime_.error_handler_line) /\ LineExists(HandlerLine))
        => /\ runtime_'.variables_[ERR].n = RaisedCode
           /\ runtime_'.variables_[ERL].n = runtime_.pc.line
           /\ runtime_'.error_pc = Some(runtime_.pc)
           /\ runtime_'.pc = running_at(HandlerLine, 0)
           /\ runtime_'.exec_stack =
                 IF runtime_.error_handler_is_gosub
                 THEN Append(runtime_.exec_stack, GosubEntry(next(runtime_.pc)))
                 ELSE runtime_.exec_stack]_vars

\* what C1 says apart from ERL, and ERL for the lines an int16_t holds
C1_TrapExceptHighErl ==
    [][(Raises /\ has_value(runtime_.error_handler_line) /\ LineExists(HandlerLine))
        => /\ runtime_'.variables_[ERR].n = RaisedCode
           /\ (runtime_.pc.line <= INT16_MAX
                  => runtime_'.variables_[ERL].n = runtime_.pc.line)
           /\ runtime_'.error_pc = Some(runtime_.pc)
           /\ runtime_'.pc = running_at(HandlerLine, 0)
           /\ runtime_'.exec_stack =
                 IF runtime_.error_handler_is_gosub
                 THEN Append(runtime_.exec_stack, GosubEntry(next(runtime_.pc)))
                 ELSE runtime_.exec_stack]_vars

ResumeTarget(s, error_pc) ==
    CASE s.resume_type = "IMPLICIT" -> error_pc
      [] s.resume_type = "NEXT"     -> next(error_pc)
      [] s.resume_type = "LINE"     -> running_at(value_of(s.target_line), 0)

\* C2: a RESUME statement executed while an error is being handled
\* (error_pc set) clears error_pc and sets the PC: plain RESUME to error_pc,
\* RESUME NEXT to the statement following error_pc, RESUME n (n an existing
\* line) to the first statement of line n.
C2_ResumeForms ==
    [][(/\ Executes
        /\ Current.k = "RESUME"
        /\ has_value(runtime_.error_pc)
        /\ (Current.resume_type = "LINE" => LineExists(value_of(Current.target_line))))
        => /\ runtime_'.error_pc = None
           /\ runtime_'.pc = ResumeTarget(Current, value_of(runtime_.error_pc))]_vars

LastStmt == value_of(hist.last).stmt
LastPC == value_of(hist.last).pc

\* a RESUME NEXT has just returned control past the failing statement
C2_Witness ==
    /\ has_value(hist.last)
    /\ LastStmt.k = "RESUME"
    /\ LastStmt.resume_type = "NEXT"
    /\ hist.traps > 0
    /\ runtime_.error_pc = None
    /\ is_running(runtime_.pc)
    /\ runtime_.pc.line < LastPC.line

FallsOffEnd ==
    /\ Executes
    /\ ~threw(AfterStmt)
    /\ ~has_value(AfterStmt.rt.next_pc)
    /\ is_running(AfterStmt.rt.pc)
    /\ ~is_running(next(runtime_.pc))

\* error 19 is what the last tick raised at failing_pc: trapped or halting
NoResumeRaisedAt(failing_pc) ==
    \/ /\ runtime_.variables_[ERR].n = NO_RESUME
       /\ runtime_.error_pc = Some(failing_pc)
    \/ /\ runtime_.pc.reason = "ERROR"
       /\ state_.error = Some([code |-> NO_RESUME, pc |-> failing_pc])

\* C4: when END executes, or execution falls off the end of the program,
\* while an error is being handled (error_pc set), No RESUME (19) is raised
\* instead of the normal END halt.
C4_EndInHandlerRaisesNoResume ==
    [][(/\ Executes
        /\ has_value(runtime_.error_pc)
        /\ (Current.k = "END" \/ FallsOffEnd))
        => \E failing_pc \in {runtime_.pc} :
              /\ NoResumeRaisedAt(failing_pc)'
              /\ runtime_'.pc.reason # "END"]_vars

\* the END statement's half of C4
C4_EndStatementOnly ==
    [][(Executes /\ has_value(runtime_.error_pc) /\ Current.k = "END")
        => \E failing_pc \in {runtime_.pc} :
              /\ NoResumeRaisedAt(failing_pc)'
              /\ runtime_'.pc.reason # "END"]_vars

----------------------------------------------------------------------------
(* Programs with a subroutine and a WHILE loop in it.                      *)
(*                                                                         *)
(*     10   GOSUB 100 | ON ERROR GOSUB 100 | REM                           *)
(*     20   GOSUB 100 | ERROR 5 | END | REM                                *)
(*     30   END | REM                                                      *)
(*     100  WHILE X < 1 | WHILE X < 2 | REM                                *)
(*     110  X = X + 1 | RETURN | WEND | REM                                *)
(*     120  WEND | RETURN | REM | GOTO 130                                 *)
(*     130  RETURN | RETURN 30 | RESUME NEXT | END | WEND                  *)

X == <<"x">>

XLessThan(n) == WhileStmt(BinaryExpr("LESS_THAN", VariableExpr(X), NumberExpr(n)))

SubSlot1 == {GosubStmt(100), parse_on_error(100, TRUE), RemStmt}
SubSlot2 == {GosubStmt(100), ErrorStmt(NumberExpr(5)), EndStmt, RemStmt}
SubSlot3 == {EndStmt, RemStmt}
SubSlot4 == {XLessThan(1), XLessThan(2), RemStmt}
SubSlot5 == {LetStmt(X, BinaryExpr("PLUS", VariableExpr(X), NumberExpr(1))),
             ReturnStmt(None), WendStmt, RemStmt}
SubSlot6 == {WendStmt, ReturnStmt(None), RemStmt, GotoStmt(130)}
SubSlot7 == {ReturnStmt(None), ReturnStmt(Some(30)), parse_resume(TRUE, None),
             EndStmt, WendStmt}

SubProgram(s1, s2, s3, s4, s5, s6, s7) ==
    <<Line(10, <<s1>>), Line(20, <<s2>>), Line(30, <<s3>>), Line(100, <<s4>>),
      Line(110, <<s5>>), Line(120, <<s6>>), Line(130, <<s7>>)>>

SubPrograms ==
    {SubProgram(s1, s2, s3, s4, s5, s6, s7) :
        s1 \in SubSlot1, s2 \in SubSlot2, s3 \in SubSlot3, s4 \in SubSlot4,
        s5 \in SubSlot5, s6 \in SubSlot6, s7 \in SubSlot7}

InitSub == InitWith(SubPrograms)
SpecSub == InitSub /\ [][Next]_vars

TopGosub == TopOfType(runtime_.exec_stack, "GOSUB")

\* C5: a RETURN executed with a GOSUB entry on the stack removes the topmost
\* GOSUB entry together with every WHILE entry above it, and goes to that
\* entry's return_pc, or to the first statement of line n for RETURN n.
C5_ReturnUnwindsWhiles ==
    [][(/\ Executes
        /\ Current.k = "RETURN"
        /\ TopGosub > 0
        /\ (has_value(Current.target_line) => LineExists(value_of(Current.target_line))))
        => /\ runtime_'.exec_stack = SubSeq(runtime_.exec_stack, 1, TopGosub - 1)
           /\ runtime_'.pc = IF has_value(Current.target_line)
                             THEN running_at(value_of(Current.target_line), 0)
                             ELSE runtime_.exec_stack[TopGosub].return_pc]_vars

\* what RETURN does: the topmost GOSUB entry alone leaves the stack
C5_ReturnErasesGosubOnly ==
    [][(/\ Executes
        /\ Current.k = "RETURN"
        /\ TopGosub > 0
        /\ (has_value(Current.target_line) => LineExists(value_of(Current.target_line))))
        => /\ runtime_'.exec_stack = erase_at(runtime_.exec_stack, TopGosub)
           /\ runtime_'.pc = IF has_value(Current.target_line)
                             THEN running_at(value_of(Current.target_line), 0)
                             ELSE runtime_.exec_stack[TopGosub].return_pc]_vars

----------------------------------------------------------------------------
(* Programs with a FOR loop and possibly a second one nested in it; v is   *)
(* I%, I# or I.                                                            *)
(*                                                                         *)
(*     10  FOR v = a TO b [STEP s]                                         *)
(*     20  FOR J = 1 TO 2 | FOR J = 2 TO 1 | PRINT v | REM                 *)
(*     30  PRINT v                                                         *)
(*     40  NEXT | NEXT J | NEXT v | NEXT J, v | REM                        *)
(*     50  NEXT | NEXT v | REM | END                                       *)
(*     60  PRINT "DONE"                                                    *)

J == <<"j">>

ForVariables == {<<"i", "%">>, <<"i", "#">>, <<"i">>}
ForStarts == {1, 3, 32766}
ForEnds == {2, 32768}
ForSteps == {None, Some(NumberExpr(2)), Some(UnaryExpr("MINUS", NumberExpr(1)))}

ForSlot1(v) ==
    {ForStmt(v, NumberExpr(a), NumberExpr(b), step) :
        a \in ForStarts, b \in ForEnds, step \in ForSteps}
ForSlot2(v) ==
    {ForStmt(J, NumberExpr(1), NumberExpr(2), None),
     ForStmt(J, NumberExpr(2), NumberExpr(1), None),
     PrintStmt(VariableExpr(v)), RemStmt}
ForSlot4(v) ==
    {NextStmt(<<>>), NextStmt(<<J>>), NextStmt(<<v>>), NextStmt(<<J, v>>), RemStmt}
ForSlot5(v) == {NextStmt(<<>>), NextStmt(<<v>>), RemStmt, EndStmt}

ForProgram(v, s1, s2, s4, s5) ==
    <<Line(10, <<s1>>), Line(20, <<s2>>), Line(30, <<PrintStmt(VariableExpr(v))>>),
      Line(40, <<s4>>), Line(50, <<s5>>), Line(60, <<PrintStmt(StringExpr("DONE"))>>)>>

ForPrograms ==
    UNION {{ForProgram(v, s1, s2, s4, s5) :
                s1 \in ForSlot1(v), s2 \in ForSlot2(v), s4 \in ForSlot4(v),
                s5 \in ForSlot5(v)} : v \in ForVariables}

InitFor == InitWith(ForPrograms)
SpecFor == InitFor /\ [][Next]_vars

\* the FOR loop entered last of those still active
MostRecentFor == hist.for_order[Len(hist.for_order)]

\* C7: a NEXT with no variable operates on the most recently entered FOR loop
\* that is still active: the tick leaves the runtime as NEXT on that loop's
\* variable does.
C7_BareNextTakesMostRecentFor ==
    [][(/\ Executes
        /\ Current.k = "NEXT"
        /\ Current.variables = <<>>
        /\ hist.for_order # <<>>)
        => runtime_' = tick(runtime_, state_, io_, MostRecentFor).rt]_vars

\* NEXT v1, ..., vk as C8 describes it: the first variable that has not passed
\* its end takes the PC and ends the handling
RECURSIVE NextInListOrder(_, _)
NextInListOrder(m, var_names) ==
    IF var_names = <<>> THEN m
    ELSE LET var_name == Head(var_names)
         IN  IF var_name \notin DOMAIN m.rt.for_states
             THEN throw_error(m, NEXT_WITHOUT_FOR)
             ELSE LET state   == m.rt.for_states[var_name]
                      current == to_number(get_variable(m.rt, var_name)) + state.step_value
                      rt1     == set_variable(m.rt, var_name, DoubleValue(current))
                      passed  == \/ state.step_value > 0 /\ current > state.end_value
                                 \/ state.step_value < 0 /\ current < state.end_value
                  IN  IF passed
                      THEN NextInListOrder(
                               [m EXCEPT !.rt = [rt1 EXCEPT !.for_states =
                                                    map_erase(rt1.for_states, var_name)]],
                               Tail(var_names))
                      ELSE [m EXCEPT !.rt = [rt1 EXCEPT !.next_pc =
                                                Some(next(state.resume_pc))]]

\* C8: NEXT v1, ..., vk handles its variables in list order: v is incremented
\* by its step; if it has passed its end its record is removed and handling
\* continues with the next variable; otherwise the PC is set to the statement
\* after FOR v.  A named variable with no FOR record raises NEXT without FOR.
C8_NamedNextInListOrder ==
    [][(/\ Executes
        /\ Current.k = "NEXT"
        /\ Current.variables # <<>>)
        => LET claimed == NextInListOrder(Machine(runtime_, io_), Current.variables)
           IN  IF threw(claimed)
               THEN value_of(hist'.last).thrown = Some(NEXT_WITHOUT_FOR)
               ELSE runtime_' = advance_pc(claimed.rt)]_vars

\* C8 for a NEXT naming one variable
C8_NextOfOneVariable ==
    [][(/\ Executes
        /\ Current.k = "NEXT"
        /\ Len(Current.variables) = 1)
        => LET claimed == NextInListOrder(Machine(runtime_, io_), Current.variables)
           IN  IF threw(claimed)
               THEN value_of(hist'.last).thrown = Some(NEXT_WITHOUT_FOR)
               ELSE runtime_' = advance_pc(claimed.rt)]_vars

\* the open loops after a NEXT closes the innermost one for each name of its
\* list (a bare NEXT closes one loop); None when a name is not the innermost
\* open loop's
RECURSIVE CloseLoops(_, _)
CloseLoops(open, var_names) ==
    IF var_names = <<>> \/ open = <<>> THEN Some(open)
    ELSE IF open[Len(open)] # Head(var_names) THEN None
    ELSE CloseLoops(SubSeq(open, 1, Len(open) - 1), Tail(var_names))

\* the NEXT matching the FOR of the outermost loop of open, every FOR after
\* it being closed by a NEXT of its own, bare or named: None when there is no
\* such NEXT
RECURSIVE MatchingNext(_, _)
MatchingNext(scan, open) ==
    LET nxt == next(scan)
    IN  IF ~is_running(nxt) THEN None
        ELSE LET stmt == value_of(get(nxt))
                 left == CASE stmt.k = "FOR" -> Some(Append(open, stmt.variable))
                           [] stmt.k = "NEXT" ->
                                IF stmt.variables = <<>>
                                THEN Some(SubSeq(open, 1, Len(open) - 1))
                                ELSE CloseLoops(open, stmt.variables)
                           [] OTHER -> Some(open)
             IN  IF ~has_value(left) THEN None
                 ELSE IF value_of(left) = <<>> THEN Some(nxt)
                 ELSE MatchingNext(nxt, value_of(left))

\* this tick's FOR statement finds its range empty
ZeroTrip ==
    /\ Executes
    /\ Current.k = "FOR"
    /\ LET a == to_number(eval(Machine(runtime_, io_), Current.start_expr))
           b == to_number(eval(Machine(runtime_, io_), Current.end_expr))
           s == IF has_value(Current.step_expr)
                THEN to_number(eval(Machine(runtime_, io_), value_of(Current.step_expr)))
                ELSE 1
       IN  (s > 0 /\ a > b) \/ (s < 0 /\ a < b)

\* C9: a FOR whose range is empty, and which has a matching NEXT, executes no
\* body statement: control goes to the statement after the matching NEXT,
\* every inner FOR being closed by its own NEXT, bare or named, and no FOR
\* record of the variable remains.
C9_ZeroTripSkipsToMatchingNext ==
    [][(ZeroTrip /\ has_value(MatchingNext(runtime_.pc, <<Current.variable>>)))
        => /\ runtime_'.pc = next(value_of(MatchingNext(runtime_.pc, <<Current.variable>>)))
           /\ Current.variable \notin DOMAIN runtime_'.for_states
           /\ io_' = io_]_vars

\* C9 for a FOR with no other FOR before its NEXT
C9_ZeroTripWithoutInnerFor ==
    [][(/\ ZeroTrip
        /\ has_value(MatchingNext(runtime_.pc, <<Current.variable>>))
        /\ \A key \in DOMAIN statements.table_ :
              statements.table_[key].k = "FOR" => key[1] <= runtime_.pc.line)
        => /\ runtime_'.pc = next(value_of(MatchingNext(runtime_.pc, <<Current.variable>>)))
           /\ Current.variable \notin DOMAIN runtime_'.for_states
           /\ io_' = io_]_vars

\* the program is one loop around PRINT v: 20 REM, 40 NEXT or NEXT v, 50 REM
\* or END
SimpleLoop ==
    /\ statements.table_[<<20, 0>>] = RemStmt
    /\ statements.table_[<<40, 0>>]
           \in {NextStmt(<<>>), NextStmt(<<statements.table_[<<10, 0>>].variable>>)}
    /\ statements.table_[<<50, 0>>] \in {RemStmt, EndStmt}

LoopStart == to_number(eval(Machine(runtime_, io_), statements.table_[<<10, 0>>].start_expr))
LoopEnd == to_number(eval(Machine(runtime_, io_), statements.table_[<<10, 0>>].end_expr))
LoopStep ==
    IF has_value(statements.table_[<<10, 0>>].step_expr)
    THEN to_number(eval(Machine(runtime_, io_),
                        value_of(statements.table_[<<10, 0>>].step_expr)))
    ELSE 1

Max(x, y) == IF x > y THEN x ELSE y

\* K = max(0, floor((b - a) / s) + 1), symmetrically for s < 0
TripCount ==
    IF LoopStep > 0 THEN Max(0, ((LoopEnd - LoopStart) \div LoopStep) + 1)
    ELSE Max(0, ((LoopStart - LoopEnd) \div (0 - LoopStep)) + 1)

\* what the body has printed so far
BodyOutput == SelectSeq(io_, LAMBDA x : ~is_string(x))

\* C10: the body of FOR v = a TO b STEP s, which does not assign v, runs
\* exactly K times with v = a, a+s, ..., a+(K-1)s in order, whatever the
\* numeric type of v: it never runs more than K times, its k-th run sees
\* a+(k-1)s, and when the program has ended it has run K times.
C10_ForRunsKTimes ==
    SimpleLoop
        => /\ Len(BodyOutput) <= TripCount
           /\ \A k \in 1..Len(BodyOutput) :
                 BodyOutput[k].n = LoopStart + (k - 1) * LoopStep
           /\ runtime_.pc.reason = "END" => Len(BodyOutput) = TripCount

\* C10 for the loops whose values a, ..., a+K*s the type of v holds
C10_ForRunsKTimesInRange ==
    (/\ SimpleLoop
     /\ resolve_type(statements.table_[<<10, 0>>].variable) = "INTEGER"
            => LoopEnd <= INT16_MAX)
        => /\ Len(BodyOutput) <= TripCount
           /\ \A k \in 1..Len(BodyOutput) :
                 BodyOutput[k].n = LoopStart + (k - 1) * LoopStep
           /\ runtime_.pc.reason = "END" => Len(BodyOutput) = TripCount

----------------------------------------------------------------------------
(* Programs with WHILE loops: nested, left by GOTO, calling a subroutine   *)
(* that returns from inside a loop of its own.                             *)
(*                                                                         *)
(*     10   WHILE X < 2 | WHILE X < 0                                      *)
(*     20   WHILE Y < 1 | GOSUB 100 | X = X + 1                            *)
(*     30   Y = Y + 1 | GOTO 50 | X = X + 1 | REM                          *)
(*     40   WEND | REM                                                     *)
(*     50   WEND                                                           *)
(*     60   END                                                            *)
(*     100  WHILE Y < 1 | REM                                              *)
(*     110  RETURN | Y = Y + 1                                             *)
(*     120  WEND | RETURN                                                  *)

Y == <<"y">>

Increment(v) == LetStmt(v, BinaryExpr("PLUS", VariableExpr(v), NumberExpr(1)))
WhileLess(v, n) == WhileStmt(BinaryExpr("LESS_THAN", VariableExpr(v), NumberExpr(n)))

WhileSlot1 == {WhileLess(X, 2), WhileLess(X, 0)}
WhileSlot2 == {WhileLess(Y, 1), GosubStmt(100), Increment(X)}
WhileSlot3 == {Increment(Y), GotoStmt(50), Increment(X), RemStmt}
WhileSlot4 == {WendStmt, RemStmt}
WhileSlot7 == {WhileLess(Y, 1), RemStmt}
WhileSlot8 == {ReturnStmt(None), Increment(Y)}
WhileSlot9 == {WendStmt, ReturnStmt(None)}

WhileProgram(s1, s2, s3, s4, s7, s8, s9) ==
    <<Line(10, <<s1>>), Line(20, <<s2>>), Line(30, <<s3>>), Line(40, <<s4>>),
      Line(50, <<WendStmt>>), Line(60, <<EndStmt>>), Line(100, <<s7>>),
      Line(110, <<s8>>), Line(120, <<s9>>)>>

WhilePrograms ==
    {WhileProgram(s1, s2, s3, s4, s7, s8, s9) :
        s1 \in WhileSlot1, s2 \in WhileSlot2, s3 \in WhileSlot3, s4 \in WhileSlot4,
        s7 \in WhileSlot7, s8 \in WhileSlot8, s9 \in WhileSlot9}

InitWhile == InitWith(WhilePrograms)
SpecWhile == InitWhile /\ [][Next]_vars

\* the WEND matching the innermost of depth open WHILEs, nested WHILE/WEND
\* pairs being skipped as units: None when the program ends first
RECURSIVE MatchingWend(_, _)
MatchingWend(scan, depth) ==
    LET nxt == next(scan)
    IN  IF ~is_running(nxt) THEN None
        ELSE LET stmt == value_of(get(nxt))
                 d == CASE stmt.k = "WHILE" -> depth + 1
                        [] stmt.k = "WEND"  -> depth - 1
                        [] OTHER -> depth
             IN  IF d = 0 THEN Some(nxt) ELSE MatchingWend(nxt, d)

\* the WHILE statements of the program
WhilePCs ==
    {running_at(key[1], key[2]) : key \in {k \in DOMAIN statements.table_ :
                                             statements.table_[k].k = "WHILE"}}

\* the WHILE statements that the WEND at wend_pc matches: one or none
MatchedWhiles(wend_pc) == {w \in WhilePCs : MatchingWend(w, 1) = Some(wend_pc)}

ConditionHolds == to_bool(eval(Machine(runtime_, io_), Current.condition))

\* C11: a WHILE whose condition is false passes control to the statement
\* after its matching WEND, executing no body statement and not that WEND; a
\* WHILE whose condition is true lets the body run; a WEND is reached only
\* when its matched WHILE was true at its last check, and returns control
\* to that WHILE.
C11_WendIffWhileTrue ==
    [][/\ (Executes /\ Current.k = "WHILE" /\ ~ConditionHolds
              /\ has_value(MatchingWend(runtime_.pc, 1)))
            => /\ runtime_'.pc = next(value_of(MatchingWend(runtime_.pc, 1)))
               /\ runtime_'.exec_stack = runtime_.exec_stack
               /\ io_' = io_
       /\ (Executes /\ Current.k = "WHILE" /\ ConditionHolds)
            => runtime_'.pc = next(runtime_.pc)
       /\ (Executes /\ Current.k = "WEND")
            => \A w \in MatchedWhiles(runtime_.pc) :
                  /\ w \in hist.true_whiles
                  /\ runtime_'.pc = w]_vars

\* C11 for the programs that leave no loop by GOTO or RETURN
C11_WithoutJumpsOutOfLoops ==
    [][/\ (Executes /\ Current.k = "WHILE" /\ ~ConditionHolds
              /\ has_value(MatchingWend(runtime_.pc, 1)))
            => /\ runtime_'.pc = next(value_of(MatchingWend(runtime_.pc, 1)))
               /\ runtime_'.exec_stack = runtime_.exec_stack
               /\ io_' = io_
       /\ (Executes /\ Current.k = "WHILE" /\ ConditionHolds)
            => runtime_'.pc = next(runtime_.pc)
       /\ (/\ Executes
           /\ Current.k = "WEND"
           /\ \A key \in DOMAIN statements.table_ :
                 statements.table_[key].k \notin {"GOTO", "GOSUB"})
            => \A w \in MatchedWhiles(runtime_.pc) :
                  /\ w \in hist.true_whiles
                  /\ runtime_'.pc = w]_vars

----------------------------------------------------------------------------
(* Programs with a computed jump.                                          *)
(*                                                                         *)
(*     10   ON e GOTO 100, 200 | ON e GOSUB 100, 200                       *)
(*     20   PRINT "FELL"                                                   *)
(*     30   END                                                            *)
(*     100  PRINT 1 | RETURN                                               *)
(*     110  END | RETURN                                                   *)
(*     200  PRINT 2 | RETURN                                               *)
(*     210  END                                                            *)

Selectors ==
    {NumberExpr(0), NumberExpr(1), NumberExpr(2), NumberExpr(3),
     UnaryExpr("MINUS", NumberExpr(1)), VariableExpr(X),
     FractionExpr(1, 2), FractionExpr(3, 2), FractionExpr(5, 2), FractionExpr(7, 4)}

OnSlot1 ==
    {OnGotoStmt(e, <<100, 200>>) : e \in Selectors}
        \cup {OnGosubStmt(e, <<100, 200>>) : e \in Selectors}
OnSlot4 == {PrintStmt(NumberExpr(1)), ReturnStmt(None)}
OnSlot5 == {EndStmt, ReturnStmt(None)}
OnSlot6 == {PrintStmt(NumberExpr(2)), ReturnStmt(None)}

OnProgram(s1, s4, s5, s6) ==
    <<Line(10, <<s1>>), Line(20, <<PrintStmt(StringExpr("FELL"))>>), Line(30, <<EndStmt>>),
      Line(100, <<s4>>), Line(110, <<s5>>), Line(200, <<s6>>), Line(210, <<EndStmt>>)>>

OnPrograms ==
    {OnProgram(s1, s4, s5, s6) :
        s1 \in OnSlot1, s4 \in OnSlot4, s5 \in OnSlot5, s6 \in OnSlot6}

InitOn == InitWith(OnPrograms)
SpecOn == InitOn /\ [][Next]_vars

\* the integer a number narrows to: round half to even, clamped to int16
NarrowToInteger(q) ==
    LET floor == q.num \div q.den
        twice == 2 * (q.num - floor * q.den)
        rounded == IF twice < q.den THEN floor
                   ELSE IF twice > q.den THEN floor + 1
                   ELSE IF floor % 2 = 0 THEN floor ELSE floor + 1
    IN  IF rounded > INT16_MAX THEN INT16_MAX
        ELSE IF rounded < INT16_MIN THEN INT16_MIN ELSE rounded

IsOn == Executes /\ Current.k \in {"ON_GOTO", "ON_GOSUB"}

\* what ON e GOTO / GOSUB l1, ..., lm has to do when e is the integer k
OnSelects(k) ==
    IF 1 <= k /\ k <= Len(Current.targets)
    THEN /\ runtime_'.pc = running_at(Current.targets[k], 0)
         /\ runtime_'.exec_stack =
               IF Current.k = "ON_GOSUB"
               THEN Append(runtime_.exec_stack, GosubEntry(next(runtime_.pc)))
               ELSE runtime_.exec_stack
    ELSE /\ runtime_'.pc = next(runtime_.pc)
         /\ runtime_'.exec_stack = runtime_.exec_stack
         /\ value_of(hist'.last).thrown = None

\* C12: ON e GOTO / GOSUB l1, ..., lm with k the integer e evaluates to (the
\* narrowing to integer rounds half to even): if 1 <= k <= m control jumps to
\* or calls the existing line l_k, otherwise execution falls through to the
\* next statement, no error is raised and the exec stack is unchanged.
C12_OnSelectsRoundedIndex ==
    [][IsOn => OnSelects(NarrowToInteger(eval_number(Machine(runtime_, io_),
                                                     Current.selector)))]_vars

\* C12 for the selectors that are whole numbers
C12_OnSelectsWholeIndex ==
    [][(IsOn /\ Current.selector.k # "Fraction")
          => OnSelects(NarrowToInteger(eval_number(Machine(runtime_, io_),
                                                   Current.selector)))]_vars

----------------------------------------------------------------------------
(* CLEAR *)

A == <<"a">>
FNA == <<"f", "n", "a">>

ClearSlot1 == {parse_on_error(80, FALSE), parse_on_error(80, TRUE), RemStmt}
ClearSlot2 == {DimStmt(A, <<NumberExpr(2)>>), RemStmt}
ClearSlot3 == {OpenStmt("OUTPUT", NumberExpr(1), StringExpr("F")), RemStmt}
ClearSlot4 == {ReadStmt(<<X>>), LetStmt(X, NumberExpr(1)), RemStmt}
ClearSlot5 == {ForStmt(J, NumberExpr(1), NumberExpr(2), None), WhileStmt(NumberExpr(1)), RemStmt}
ClearSlot6 == {GosubStmt(80), ErrorStmt(NumberExpr(5)), GotoStmt(80)}
ClearSlot10 == {DefFnStmt(FNA, <<X>>, VariableExpr(X)), RemStmt}

\* 10 ON ERROR GOTO 80 / 20 DIM A(2) / 30 OPEN "O",#1,"F" / 40 READ X
\* 50 FOR J = 1 TO 2 / 60 GOSUB 80 / 70 END / 80 CLEAR / 90 DATA 5,6
\* 100 DEF FNA(X) = X
ClearProgram(s1, s2, s3, s4, s5, s6, s10) ==
    <<Line(10, <<s1>>), Line(20, <<s2>>), Line(30, <<s3>>), Line(40, <<s4>>),
      Line(50, <<s5>>), Line(60, <<s6>>), Line(70, <<EndStmt>>),
      Line(80, <<ClearStmt>>),
      Line(90, <<DataStmt(<<DoubleValue(5), DoubleValue(6)>>)>>),
      Line(100, <<s10>>)>>

ClearPrograms ==
    {ClearProgram(s1, s2, s3, s4, s5, s6, s10) :
        s1 \in ClearSlot1, s2 \in ClearSlot2, s3 \in ClearSlot3, s4 \in ClearSlot4,
        s5 \in ClearSlot5, s6 \in ClearSlot6, s10 \in ClearSlot10}

InitClear == InitWithBreakpoints(ClearPrograms, {{}, {running_at(100, 0)}})
SpecClear == InitClear /\ [][Next]_vars

\* C13: a tick that executes CLEAR leaves no variable but ERR% and ERL%,
\* which keep their values, no array, no open file, an empty execution stack,
\* no FOR record and the DATA cursor at 0; the user-function table and the
\* breakpoints are as before.
C13_ClearResets ==
    [][Executes /\ Current.k = "CLEAR" =>
          /\ runtime_'.variables_ =
                 (ERR :> runtime_.variables_[ERR]) @@ (ERL :> runtime_.variables_[ERL])
          /\ runtime_'.arrays_ = <<>>
          /\ runtime_'.files = <<>>
          /\ runtime_'.exec_stack = <<>>
          /\ runtime_'.for_states = <<>>
          /\ runtime_'.data_ptr = 0
          /\ runtime_'.user_functions = runtime_.user_functions
          /\ runtime_'.breakpoints = runtime_.breakpoints]_vars

\* CLEAR has just run in the program that trapped ERROR 5 with ON ERROR GOSUB
\* after DIM, OPEN, READ and FOR, with a user function and a breakpoint set
C13_Witness ==
    /\ has_value(hist.last)
    /\ LastStmt.k = "CLEAR"
    /\ hist.ticks = 7
    /\ get(running_at(10, 0)) = Some(parse_on_error(80, TRUE))
    /\ get(running_at(20, 0)) = Some(DimStmt(A, <<NumberExpr(2)>>))
    /\ get(running_at(30, 0)) = Some(OpenStmt("OUTPUT", NumberExpr(1), StringExpr("F")))
    /\ get(running_at(40, 0)) = Some(ReadStmt(<<X>>))
    /\ get(running_at(50, 0)) = Some(ForStmt(J, NumberExpr(1), NumberExpr(2), None))
    /\ runtime_.variables_[ERR] = Int16Value(5)
    /\ runtime_.user_functions # <<>>
    /\ runtime_.breakpoints # {}

----------------------------------------------------------------------------
(* DATA, READ and RESTORE *)

DataSlot1 ==
    {<<DataStmt(<<DoubleValue(1), DoubleValue(2)>>)>>,
     <<DataStmt(<<DoubleValue(1), DoubleValue(2)>>), DataStmt(<<DoubleValue(3)>>)>>,
     <<RemStmt>>}
DataSlot2 == {ReadStmt(<<X>>), RemStmt}
DataSlot3 ==
    {<<DataStmt(<<DoubleValue(7)>>)>>,
     <<RemStmt, DataStmt(<<DoubleValue(7)>>), DataStmt(<<StringValue("EIGHT")>>)>>,
     <<RemStmt>>}
DataSlot4 ==
    {RestoreStmt(None), RestoreStmt(Some(10)), RestoreStmt(Some(30)),
     RestoreStmt(Some(5)), RestoreStmt(Some(40))}
DataSlot5 == {ReadStmt(<<Y>>), ReadStmt(<<Y, X>>)}

\* 10 DATA 1,2 : DATA 3 / 20 READ X / 30 DATA 7 / 40 RESTORE 10 / 50 READ Y
\* 60 PRINT Y / 70 END
DataProgram(s1, s2, s3, s4, s5) ==
    <<Line(10, s1), Line(20, <<s2>>), Line(30, s3), Line(40, <<s4>>),
      Line(50, <<s5>>), Line(60, <<PrintStmt(VariableExpr(Y))>>), Line(70, <<EndStmt>>)>>

DataPrograms ==
    {DataProgram(s1, s2, s3, s4, s5) :
        s1 \in DataSlot1, s2 \in DataSlot2, s3 \in DataSlot3, s4 \in DataSlot4,
        s5 \in DataSlot5}

InitData == InitWith(DataPrograms)
SpecData == InitData /\ [][Next]_vars

\* the DATA statements of the program that come before a statement
DataBefore(line, stmt) ==
    {key \in DOMAIN statements.table_ :
        /\ statements.table_[key].k = "DATA"
        /\ key[1] < line \/ (key[1] = line /\ key[2] < stmt)}

\* the number of values in a set of DATA statements
RECURSIVE CountValues(_)
CountValues(keys) ==
    IF keys = {} THEN 0
    ELSE LET key == CHOOSE k \in keys : TRUE
         IN  Len(statements.table_[key].values) + CountValues(keys \ {key})

\* the DATA statements on a line
DataOn(line) ==
    {key \in DOMAIN statements.table_ :
        key[1] = line /\ statements.table_[key].k = "DATA"}

\* the pool index of the first value of the first DATA statement on a line
FirstDataIndex(line) ==
    LET firstkey == CHOOSE key \in DataOn(line) : \A other \in DataOn(line) : key[2] <= other[2]
    IN  CountValues(DataBefore(firstkey[1], firstkey[2]))

\* the pool of the program: the values of its DATA statements in order
RECURSIVE PoolOf(_)
PoolOf(keys) ==
    IF keys = {} THEN <<>>
    ELSE LET lastkey == CHOOSE key \in keys : \A other \in keys :
                            other[1] < key[1] \/ (other[1] = key[1] /\ other[2] <= key[2])
         IN  PoolOf(keys \ {lastkey}) \o statements.table_[lastkey].values

Pool == PoolOf({key \in DOMAIN statements.table_ : statements.table_[key].k = "DATA"})

\* the line numbers of the program
ProgramLines == {key[1] : key \in DOMAIN statements.table_}

IsRestore == Executes /\ Current.k = "RESTORE"
IsRead == Executes /\ Current.k = "READ"

\* what RESTORE and the READ after it do, given the lines RESTORE may name
RestoreSetsCursor(lines) ==
    /\ IsRestore /\ ~has_value(Current.target_line) => runtime_'.data_ptr = 0
    /\ IsRestore /\ has_value(Current.target_line)
          /\ value_of(Current.target_line) \in lines
          => runtime_'.data_ptr = FirstDataIndex(value_of(Current.target_line))
    /\ IsRead /\ has_value(hist.last) /\ LastStmt.k = "RESTORE"
          /\ runtime_.data_ptr < Len(Pool)
          => runtime_'.variables_[Head(Current.variables)] =
                 coerce_to(Pool[runtime_.data_ptr + 1],
                           resolve_type(Head(Current.variables)))

\* C14: RESTORE n puts the DATA cursor on the first value of the first DATA
\* statement on line n, RESTORE without a line puts it on 0, and the READ
\* that follows reads the value at the cursor.
C14_RestoreFirstDataOfLine ==
    [][RestoreSetsCursor({line \in ProgramLines : DataOn(line) # {}})]_vars

LinesWithOneData ==
    {line \in ProgramLines : Cardinality(DataOn(line)) = 1}

\* C14 for the lines that hold one DATA statement
C14_RestoreLineOfOneData == [][RestoreSetsCursor(LinesWithOneData)]_vars

----------------------------------------------------------------------------
(* IF ... THEN ... ELSE *)

PrintNumber(n) == PrintStmt(NumberExpr(n))

IfConditions == {NumberExpr(1), NumberExpr(0)}

ThenBranches ==
    {<<PrintNumber(1)>>, <<PrintNumber(1), PrintNumber(4)>>,
     <<GotoStmt(100), PrintNumber(1)>>, <<GosubStmt(100), PrintNumber(1)>>,
     <<GotoStmt(100), EndStmt>>, <<EndStmt, PrintNumber(1)>>, <<StopStmt, GotoStmt(100)>>,
     <<ReturnStmt(None), PrintNumber(1)>>, <<ErrorStmt(NumberExpr(5)), PrintNumber(1)>>,
     <<GotoStmt(999), PrintNumber(1)>>,
     <<IfStmt(NumberExpr(1), <<PrintNumber(1)>>, None, <<>>, None), PrintNumber(4)>>}

ElseBranches == {<<>>, <<PrintNumber(5), GotoStmt(100)>>, <<GotoStmt(100), PrintNumber(5)>>}

IfSlot1 ==
    {IfStmt(c, th, None, el, None) :
        c \in IfConditions, th \in ThenBranches, el \in ElseBranches}
    \cup {IfStmt(c, <<>>, Some(100), <<>>, None) : c \in IfConditions}
    \cup {IfStmt(c, <<>>, Some(100), <<>>, Some(30)) : c \in IfConditions}
IfSlot0 == {RemStmt, GosubStmt(10)}
IfSlot5 == {ReturnStmt(None), EndStmt}

\* 5 GOSUB 10 / 10 IF 1 THEN GOTO 100 : PRINT 1 ELSE PRINT 5 : GOTO 100
\* 20 PRINT 2 / 30 END / 100 PRINT 3 / 110 RETURN
IfProgram(s0, s1, s5) ==
    <<Line(5, <<s0>>), Line(10, <<s1>>), Line(20, <<PrintNumber(2)>>), Line(30, <<EndStmt>>),
      Line(100, <<PrintNumber(3)>>), Line(110, <<s5>>)>>

IfPrograms == {IfProgram(s0, s1, s5) : s0 \in IfSlot0, s1 \in IfSlot1, s5 \in IfSlot5}

InitIf == InitWith(IfPrograms)
SpecIf == InitIf /\ [][Next]_vars

\* has the statement transferred control, halted the program or failed?
Transfers(m) == threw(m) \/ ~is_running(m.rt.pc) \/ has_value(m.rt.next_pc)

RECURSIVE InOrder(_, _, _)

\* a statement as it executes with the statements of an IF's branch taken
\* in order
Sequentially(m, s, begin_key) ==
    IF s.k # "IF" THEN execute(m, s, begin_key)
    ELSE IF to_bool(eval(m, s.condition))
    THEN IF has_value(s.then_line) THEN jump_to(m, value_of(s.then_line))
         ELSE InOrder(m, s.then_stmts, begin_key)
    ELSE IF has_value(s.else_line) THEN jump_to(m, value_of(s.else_line))
         ELSE InOrder(m, s.else_stmts, begin_key)

\* the statements of a branch in written order, each with its full effect:
\* after a transfer of control, a halt or an error the following statement
\* is not considered
InOrder(m, stmts, begin_key) ==
    IF stmts = <<>> THEN m
    ELSE LET m2 == Sequentially(m, Head(stmts), begin_key)
         IN  IF Transfers(m2) THEN m2 ELSE InOrder(m2, Tail(stmts), begin_key)

IsIf == Executes /\ Current.k = "IF"

\* the first statement of the line after this one, END past the last line
NextLine(pc) ==
    LET later == {key \in DOMAIN statements.table_ : key[1] > pc.line}
    IN  IF later = {} THEN halted("END")
        ELSE running_at(CHOOSE l \in ProgramLines :
                            l > pc.line /\ \A key \in later : l <= key[1], 0)

\* what a tick on an IF leaves behind if the statements up to and including
\* the ones in the set are the ones executed in order
IfRunsInOrder(ifs) ==
    IsIf /\ Current \in ifs =>
        LET m == Sequentially(Machine(runtime_, io_), Current,
                              CHOOSE key \in BeginKeys(runtime_.for_states) : TRUE)
            r == finish_tick(m, [state_ EXCEPT !.skip_next_breakpoint = FALSE])
        IN  /\ runtime_' = r.rt
            /\ io_' = r.io
            /\ ~Transfers(m) => runtime_'.pc = NextLine(runtime_.pc)

\* C20: the statements of the chosen branch of an IF execute in written
\* order, each with its full effect (a transfer of control, a halt) before
\* the next one is considered; a branch that transfers nowhere is followed
\* by the next line.
C20_BranchInOrder == [][IfRunsInOrder(IfSlot1)]_vars

\* does any statement but the last of the branch jump?
RECURSIVE JumpsEarly(_)
JumpsEarly(stmts) ==
    /\ Len(stmts) > 1
    /\ \/ Head(stmts).k \in {"GOTO", "GOSUB", "RETURN"}
       \/ JumpsEarly(Tail(stmts))

\* C20 for the IF statements in whose branches only the last statement jumps
C20_BranchWithJumpLast ==
    [][IfRunsInOrder({s \in IfSlot1 : ~JumpsEarly(s.then_stmts)
                                     /\ ~JumpsEarly(s.else_stmts)})]_vars

\* C16: a tick that executes anything executes one statement.
C16_OneStatementPerTick ==
    [][Executes => AfterStmt.executed = 1]_vars

\* C16 for the ticks whose statement is no IF
C16_OneStatementOutsideIf ==
    [][Executes /\ Current.k # "IF" => AfterStmt.executed = 1]_vars

----------------------------------------------------------------------------
(* Halting, breaking and continuing *)

DrivenSlot1 ==
    {PrintNumber(1), ClearStmt, StopStmt,
     IfStmt(NumberExpr(1), <<GotoStmt(30), EndStmt>>, None, <<>>, None),
     IfStmt(NumberExpr(1), <<GotoStmt(30), StopStmt>>, None, <<>>, None)}
DrivenSlot2 == {StopStmt, PrintNumber(2)}
DrivenSlot3 == {EndStmt}

\* 10 IF 1 THEN GOTO 30 : END / 20 STOP / 30 END
DrivenProgram(s1, s2, s3) == <<Line(10, <<s1>>), Line(20, <<s2>>), Line(30, <<s3>>)>>

DrivenPrograms ==
    {DrivenProgram(s1, s2, s3) :
        s1 \in DrivenSlot1, s2 \in DrivenSlot2, s3 \in DrivenSlot3}

InitDriven == InitWithBreakpoints(DrivenPrograms, {{}, {running_at(20, 0)}})
SpecDriven == InitDriven /\ [][NextDriven]_vars

\* the step is a call of tick() with a running PC, with a halted PC
RunningTick == hist'.ticks = hist.ticks + 1
HaltedTick == hist'.idle = hist.idle + 1

\* what C15 says of the statements in a set
OnlyRunningAdvances(kinds) ==
    /\ HaltedTick => UNCHANGED <<runtime_, state_, io_>> /\ ~is_running(runtime_'.pc)
    /\ RunningTick /\ Executes /\ Current.k \in kinds
          /\ ~is_running(AfterStmt.rt.pc)
          => ~is_running(runtime_'.pc)

StatementKinds == {"PRINT", "CLEAR", "STOP", "END", "ERROR", "IF"}

\* C15: a tick with a PC that is not RUNNING executes nothing and changes
\* nothing, and a PC that a statement has halted is still halted when the
\* tick returns.
C15_OnlyRunningAdvances == [][OnlyRunningAdvances(StatementKinds)]_vars

\* C15 for the statements that are no IF
C15_OutsideIf == [][OnlyRunningAdvances(StatementKinds \ {"IF"})]_vars

\* a tick with a running PC finds break_requested set
BreakSeen == RunningTick /\ is_running(runtime_.pc) /\ runtime_.break_requested

HaltsWithBreak ==
    /\ hist'.last = None
    /\ io_' = io_
    /\ runtime_' = [runtime_ EXCEPT !.pc.reason = "BREAK", !.break_requested = FALSE]

\* C17: a tick that begins with a running PC and break_requested set
\* executes nothing, halts with BREAK where it is and clears the flag; a
\* flag that was set stays set until a tick halts with BREAK.
C17_BreakNeverLost ==
    [][/\ BreakSeen => HaltsWithBreak
       /\ hist'.break_pending => runtime_'.break_requested]_vars

\* C17 without a pause requested, and for the ticks that execute no CLEAR
C17_BreakWithoutPauseAndClear ==
    [][/\ BreakSeen /\ ~state_.pause_requested => HaltsWithBreak
       /\ hist'.break_pending /\ (hist.break_pending => runtime_.break_requested)
             /\ ~(RunningTick /\ Executes /\ Current.k = "CLEAR")
             => runtime_'.break_requested]_vars

\* C19: after CONT from the halt of a STOP statement the PC is RUNNING at
\* the statement that follows the STOP.
C19_ContResumesAfterStop ==
    has_value(hist.cont_from) =>
        /\ is_running(runtime_.pc)
        /\ runtime_.pc = next(value_of(hist.cont_from))

----------------------------------------------------------------------------
(* Failures inside a tick *)

IntegerDivide(a, b) == PrintStmt(BinaryExpr("BACKSLASH", a, b))
OpenOutput(n, name) == OpenStmt("OUTPUT", NumberExpr(n), name)

FailSlot1 == {parse_on_error(100, FALSE), RemStmt}
FailSlot2 ==
    {IntegerDivide(NumberExpr(6), NumberExpr(4)),
     IntegerDivide(NumberExpr(1), NumberExpr(0)),
     IntegerDivide(NumberExpr(1), FractionExpr(1, 2)),
     IntegerDivide(UnaryExpr("MINUS", NumberExpr(7)), FractionExpr(5, 2)),
     DimStmt(A, <<NumberExpr(2)>>),
     DimStmt(A, <<UnaryExpr("MINUS", NumberExpr(1))>>),
     DimStmt(A, <<UnaryExpr("MINUS", NumberExpr(5))>>),
     OpenOutput(1, StringExpr("F")),
     OpenOutput(1, NumberExpr(5)),
     OpenOutput(0, StringExpr("F")),
     OpenOutput(1, StringExpr("")),
     OpenStmt("INPUT", NumberExpr(1), StringExpr("NOFILE")),
     OpenStmt("INPUT", NumberExpr(1), StringExpr("IN")),
     ErrorStmt(NumberExpr(5))}
FailSlot3 ==
    {DimStmt(A, <<NumberExpr(2)>>), OpenOutput(1, StringExpr("F")),
     ReadStmt(<<X>>), RemStmt}

\* 10 ON ERROR GOTO 100 / 20 PRINT 1 \ 0.5 / 30 DIM A(2) / 40 END
\* 100 PRINT ERR : RESUME NEXT
FailProgram(s1, s2, s3) ==
    <<Line(10, <<s1>>), Line(20, <<s2>>), Line(30, <<s3>>), Line(40, <<EndStmt>>),
      Line(100, <<PrintStmt(VariableExpr(ERR)), parse_resume(TRUE, None)>>)>>

FailPrograms ==
    {FailProgram(s1, s2, s3) : s1 \in FailSlot1, s2 \in FailSlot2, s3 \in FailSlot3}

InitFail == InitWith(FailPrograms)
SpecFail == InitFail /\ [][Next]_vars

\* the statement of this tick fails
Fails == Executes /\ threw(AfterStmt)

\* the failure is a runtime error, and the tick has trapped it or recorded it
\* and halted with ERROR
Surfaces ==
    /\ has_value(AfterStmt.thrown)
    /\ \/ /\ has_value(runtime_.error_handler_line)
          /\ runtime_'.error_pc = Some(runtime_.pc)
          /\ runtime_'.variables_[ERR].n = value_of(AfterStmt.thrown)
       \/ /\ ~has_value(runtime_.error_handler_line)
          /\ runtime_'.pc.reason = "ERROR"
          /\ state_'.error =
                 Some([code |-> value_of(AfterStmt.thrown), pc |-> runtime_.pc])

\* C18: every failure inside a tick surfaces as a runtime error that is
\* trapped or recorded with reason ERROR; no other exception leaves tick()
\* and no undefined operation is performed.
C18_FailuresSurface == [][(Fails => Surfaces) /\ escaped' = None]_vars

\* C18 for the failures that the code raises as runtime errors
C18_RuntimeErrorsSurface ==
    [][Fails /\ has_value(AfterStmt.thrown) => Surfaces /\ escaped' = None]_vars

----------------------------------------------------------------------------
(* Arrays: OPTION BASE and DIM, then two assignments to elements *)

ArraySubscripts ==
    {<<NumberExpr(i)>> : i \in -1..3}
        \cup {<<NumberExpr(i), NumberExpr(j)>> : i, j \in 0..3}

ArraySlot1 == {RemStmt, OptionBaseStmt(1)}
ArraySlot2 ==
    {DimStmt(A, <<NumberExpr(d)>>) : d \in 0..2}
        \cup {DimStmt(A, <<NumberExpr(d1), NumberExpr(d2)>>) : d1, d2 \in 1..2}
ArraySlot3 == {RemStmt, OptionBaseStmt(1)}
ArraySlot4 == {LetElementStmt(A, t, NumberExpr(7)) : t \in ArraySubscripts}
ArraySlot5 ==
    {LetElementStmt(A, t, NumberExpr(8)) :
        t \in {<<NumberExpr(1)>>, <<NumberExpr(3)>>,
               <<NumberExpr(1), NumberExpr(2)>>, <<NumberExpr(2), NumberExpr(1)>>}}

ArrayProgram(s1, s2, s3, s4, s5) ==
    <<Line(10, <<s1>>), Line(20, <<s2>>), Line(30, <<s3>>),
      Line(40, <<s4>>), Line(50, <<s5>>)>>

ArrayPrograms ==
    {ArrayProgram(s1, s2, s3, s4, s5) :
        s1 \in ArraySlot1, s2 \in ArraySlot2, s3 \in ArraySlot3,
        s4 \in ArraySlot4, s5 \in ArraySlot5}

InitArray == InitWith(ArrayPrograms)
SpecArray == InitArray /\ [][Next]_vars

\* the subscripts of an element assignment of this family
SubscriptsOf(s) == [i \in 1..Len(s.indices) |-> s.indices[i].value]

\* every OPTION BASE of the program precedes every DIM
BaseSetBeforeDim ==
    \A k1, k2 \in DOMAIN statements.table_ :
        statements.table_[k1].k = "OPTION_BASE" /\ statements.table_[k2].k = "DIM"
            => k1[1] < k2[1]

InBounds(t, arr, base) ==
    \A j \in 1..Len(t) : base <= t[j] /\ t[j] <= arr.dimensions[j]

\* an assignment of val to the element t of arr, m the machine it leaves:
\* within the bounds it stores val in a cell of its own and leaves the other
\* cells, outside them it raises Subscript out of range
ElementAssigned(name, t, val, m) ==
    LET arr == runtime_.arrays_[name]
        base == runtime_.array_base
        cell(u) == array_index(runtime_, arr, u)
    IN  IF InBounds(t, arr, base)
        THEN /\ ~threw(m)
             /\ has_value(cell(t))
             /\ value_of(cell(t)) < Len(arr.data)
             /\ m.rt.arrays_[name].data[value_of(cell(t)) + 1] = coerce_to(val, arr.type)
             /\ \A u \in [1..Len(t) -> -1..3] :
                    InBounds(u, arr, base) /\ u # t
                        => /\ has_value(cell(u))
                           /\ cell(u) # cell(t)
                           /\ m.rt.arrays_[name].data[value_of(cell(u)) + 1]
                                  = arr.data[value_of(cell(u)) + 1]
        ELSE /\ m.thrown = Some(SUBSCRIPT_OUT_OF_RANGE)
             /\ m.rt.arrays_ = runtime_.arrays_

\* C21: after DIM a(d1,...,dk) under the current OPTION BASE, an assignment
\* to a tuple with base <= ij <= dj for all j succeeds and writes a cell that
\* no other such tuple addresses; an assignment to a tuple with some ij
\* outside base..dj raises Subscript out of range
C21_ArrayCells ==
    [][Executes /\ Current.k = "LET_ELEMENT"
       /\ Current.target \in DOMAIN runtime_.arrays_
       /\ BaseSetBeforeDim
       /\ Len(Current.indices) = Len(runtime_.arrays_[Current.target].dimensions)
          => /\ ElementAssigned(Current.target, SubscriptsOf(Current),
                                eval(Machine(runtime_, io_), Current.expression),
                                AfterStmt)
             /\ runtime_'.arrays_ = AfterStmt.rt.arrays_]_vars

\* two elements of a two-dimensional array under OPTION BASE 1 hold the values
\* of the two assignments
C21_Witness ==
    /\ A \in DOMAIN runtime_.arrays_
    /\ runtime_.array_base = 1
    /\ BaseSetBeforeDim
    /\ Len(runtime_.arrays_[A].dimensions) = 2
    /\ \E i, j \in 1..Len(runtime_.arrays_[A].data) :
          /\ i # j
          /\ runtime_.arrays_[A].data[i].n = 7
          /\ runtime_.arrays_[A].data[j].n = 8

----------------------------------------------------------------------------
(* Assignments across the types: LET, READ and FOR with string and numeric *)
(* values and targets                                                      *)

S == <<"s", "$">>
T == <<"t", "$">>

TypeValues == {NumberExpr(5), StringExpr("AB")}

TypeSlot1 == {LetStmt(name, e) : name \in {X, S}, e \in TypeValues}
TypeSlot2 ==
    {LetElementStmt(name, <<NumberExpr(1)>>, e) : name \in {A, T}, e \in TypeValues}
TypeSlot3 == {ReadStmt(<<X>>), ReadStmt(<<S>>)}
TypeSlot4 == {DataStmt(<<DoubleValue(5)>>), DataStmt(<<StringValue("AB")>>)}
TypeSlot5 ==
    {ForStmt(X, NumberExpr(1), NumberExpr(2), None),
     ForStmt(X, StringExpr("AB"), NumberExpr(2), None),
     ForStmt(S, NumberExpr(1), NumberExpr(2), None)}

TypeProgram(s1, s2, s3, s4, s5) ==
    <<Line(10, <<s1>>), Line(20, <<s2>>), Line(30, <<s3>>), Line(40, <<s4>>),
      Line(50, <<s5>>), Line(60, <<EndStmt>>)>>

TypePrograms ==
    {TypeProgram(s1, s2, s3, s4, s5) :
        s1 \in TypeSlot1, s2 \in TypeSlot2, s3 \in TypeSlot3, s4 \in TypeSlot4,
        s5 \in TypeSlot5}

InitType == InitWith(TypePrograms)
SpecType == InitType /\ [][Next]_vars

\* the value goes to a target of the other kind
Mismatch(name, v) == is_string(v) # (resolve_type(name) = "STRING")

\* this tick's statement assigns a string to a numeric target or a number to
\* a string target
AssignsAcrossTypes ==
    /\ Executes
    /\ CASE Current.k \in {"LET", "LET_ELEMENT"} ->
                Mismatch(Current.target, eval(Machine(runtime_, io_), Current.expression))
         [] Current.k = "READ" ->
                /\ runtime_.data_ptr < Len(runtime_.data_values)
                /\ Mismatch(Current.variables[1],
                            runtime_.data_values[runtime_.data_ptr + 1])
         [] Current.k = "FOR" ->
                Mismatch(Current.variable,
                         eval(Machine(runtime_, io_), Current.start_expr))
         [] OTHER -> FALSE

\* C22: an assignment of a string to a numeric variable or array element, or
\* of a number to a string one, by LET, READ or FOR raises Type mismatch
C22_MismatchRaises ==
    [][AssignsAcrossTypes => AfterStmt.thrown = Some(TYPE_MISMATCH)]_vars

----------------------------------------------------------------------------
(* Comparisons of strings: a string is the sequence of its bytes *)

CompareStrings == {<<>>, <<65>>, <<66>>, <<65, 66>>, <<97>>, <<200>>}

Comparisons ==
    {"EQUAL", "NOT_EQUAL", "LESS_THAN", "GREATER_THAN", "LESS_EQUAL", "GREATER_EQUAL"}

CompareSlot1 ==
    {PrintStmt(BinaryExpr(op, StringExpr(l), StringExpr(r))) :
        op \in Comparisons, l \in CompareStrings, r \in CompareStrings}

ComparePrograms == {<<Line(10, <<s1>>), Line(20, <<EndStmt>>)>> : s1 \in CompareSlot1}

InitCompare == InitWith(ComparePrograms)
SpecCompare == InitCompare /\ [][Next]_vars

\* a precedes b in the lexicographic order of the byte values
RECURSIVE LexLess(_, _)
LexLess(a, b) ==
    IF b = <<>> THEN FALSE
    ELSE IF a = <<>> THEN TRUE
    ELSE IF Head(a) # Head(b) THEN Head(a) < Head(b)
    ELSE LexLess(Tail(a), Tail(b))

Holds(op, a, b) ==
    CASE op = "EQUAL"         -> a = b
      [] op = "NOT_EQUAL"     -> a # b
      [] op = "LESS_THAN"     -> LexLess(a, b)
      [] op = "GREATER_THAN"  -> LexLess(b, a)
      [] op = "LESS_EQUAL"    -> ~LexLess(b, a)
      [] op = "GREATER_EQUAL" -> ~LexLess(a, b)

\* this tick prints the comparison of two strings with one of ops: the value
\* printed is -1 when the relation holds between the byte sequences, else 0
ComparesLexicographically(ops) ==
    Executes /\ Current.k = "PRINT" /\ Current.expression.k = "Binary"
    /\ Current.expression.op \in ops
       => io_' = Append(io_, DoubleValue(
                     IF Holds(Current.expression.op, Current.expression.left.value,
                              Current.expression.right.value)
                     THEN -1 ELSE 0))

\* C23: for two string operands each of =, <>, <, >, <=, >= compares
\* lexicographically on byte values and yields -1 when the relation holds and
\* 0 otherwise
C23_StringComparisons == [][ComparesLexicographically(Comparisons)]_vars

\* the equality of two strings is the one relational operator that looks at
\* the strings
C23_StringEquality == [][ComparesLexicographically({"EQUAL"})]_vars

----------------------------------------------------------------------------
(* Division: a / b, a \ b and a MOD b with whole and fractional divisors *)

Dividends == {NumberExpr(6), NumberExpr(-12)}
Divisors ==
    {NumberExpr(0), NumberExpr(2), NumberExpr(-3), FractionExpr(1, 2), FractionExpr(-1, 2)}

DivideSlot1 == {RemStmt, parse_on_error(100, FALSE)}
DivideSlot2 ==
    {PrintStmt(BinaryExpr(op, a, b)) :
        op \in {"DIVIDE", "BACKSLASH", "MOD"}, a \in Dividends, b \in Divisors}

DividePrograms ==
    {<<Line(10, <<s1>>), Line(20, <<s2>>), Line(30, <<EndStmt>>),
       Line(100, <<PrintStmt(VariableExpr(ERR)), parse_resume(TRUE, None)>>)>> :
        s1 \in DivideSlot1, s2 \in DivideSlot2}

InitDivide == InitWith(DividePrograms)
SpecDivide == InitDivide /\ [][Next]_vars

\* this tick prints a quotient or a remainder
Divides ==
    Executes /\ Current.k = "PRINT" /\ Current.expression.k = "Binary"
    /\ Current.expression.op \in {"DIVIDE", "BACKSLASH", "MOD"}

\* the divisor as the expression gives it
Divisor == eval_number(Machine(runtime_, io_), Current.expression.right)

\* the divisor the operation divides by: \ and MOD narrow it to an int
DivisorUsed ==
    IF Current.expression.op = "DIVIDE" THEN Divisor.num ELSE static_cast_int(Divisor)

\* C24: a / b, a \ b and a MOD b raise Division by zero whenever the divisor
\* the operation uses is zero, for \ and MOD the divisor after its conversion
\* to an integer
C24_ZeroDivisorUsedRaises ==
    [][Divides /\ DivisorUsed = 0 => AfterStmt.thrown = Some(DIVISION_BY_ZERO)]_vars

\* a divisor that is zero before any conversion raises Division by zero
C24_ZeroDivisorRaises ==
    [][Divides /\ Divisor.num = 0 => AfterStmt.thrown = Some(DIVISION_BY_ZERO)]_vars

----------------------------------------------------------------------------
(* User functions: DEF FN and a call, with the parameter set or unset before *)

CallSlot1 ==
    {DefFnStmt(FNA, <<X>>, BinaryExpr("PLUS", VariableExpr(X), NumberExpr(1))),
     DefFnStmt(FNA, <<X>>, BinaryExpr("BACKSLASH", NumberExpr(6), VariableExpr(X))),
     DefFnStmt(FNA, <<X, Y>>, BinaryExpr("PLUS", VariableExpr(X), VariableExpr(Y)))}
CallSlot2 == {RemStmt, LetStmt(X, NumberExpr(3))}
CallSlot3 == {RemStmt, parse_on_error(100, FALSE)}
CallSlot4 ==
    {PrintStmt(FunctionCallExpr(FNA, args)) :
        args \in {<<NumberExpr(0)>>, <<NumberExpr(5)>>, <<NumberExpr(5), NumberExpr(7)>>}}

\* 10 DEF FNA(...) = ...
\* 20 s2
\* 30 s3
\* 40 PRINT FNA(...)
\* 50 PRINT X
\* 60 END
\* 100 RESUME NEXT
CallProgram(s1, s2, s3, s4) ==
    <<Line(10, <<s1>>), Line(20, <<s2>>), Line(30, <<s3>>), Line(40, <<s4>>),
      Line(50, <<PrintStmt(VariableExpr(X))>>), Line(60, <<EndStmt>>),
      Line(100, <<parse_resume(TRUE, None)>>)>>

CallPrograms ==
    {CallProgram(s1, s2, s3, s4) :
        s1 \in CallSlot1, s2 \in CallSlot2, s3 \in CallSlot3, s4 \in CallSlot4}

InitCall == InitWith(CallPrograms)
SpecCall == InitCall /\ [][Next]_vars

\* this tick's statement is a call of a user function with as many arguments
\* as the function has parameters
Calls ==
    /\ Executes
    /\ Current.k = "PRINT"
    /\ Current.expression.k = "FunctionCall"
    /\ Current.expression.name \in DOMAIN runtime_.user_functions
    /\ Len(Current.expression.args)
           = Len(runtime_.user_functions[Current.expression.name].params)

Parameters == runtime_.user_functions[Current.expression.name].params

\* C25: a call FN f(args) leaves the scalar store as it was, whether the body
\* evaluates normally or raises an error: every parameter name holds its
\* pre-call value, and a parameter name that was unset is unset again
C25_CallLeavesStore ==
    [][Calls => AfterStmt.rt.variables_ = runtime_.variables_]_vars

\* a call whose parameters are all set before it and whose body evaluates
\* normally leaves the scalar store as it was
C25_SetParametersRestored ==
    [][(/\ Calls
        /\ \A i \in 1..Len(Parameters) : Parameters[i] \in DOMAIN runtime_.variables_
        /\ ~threw(AfterStmt))
       => AfterStmt.rt.variables_ = runtime_.variables_]_vars

----------------------------------------------------------------------------
(* MID$ as a statement: a string is the sequence of its bytes *)

MidValues == {<<>>, <<65>>, <<65, 66, 67>>}
MidStarts == {NumberExpr(p) : p \in -1..4}
MidLengths == {None} \cup {Some(NumberExpr(l)) : l \in {-1, 0, 1, 2, 5}}
MidReplacements == {<<>>, <<88>>, <<88, 89>>, <<88, 89, 90, 87>>}

MidSlot1 == {LetStmt(S, StringExpr(v)) : v \in MidValues}
MidSlot2 ==
    {MidAssignStmt(S, p, l, StringExpr(e)) :
        p \in MidStarts, l \in MidLengths, e \in MidReplacements}

MidPrograms ==
    {<<Line(10, <<s1>>), Line(20, <<s2>>), Line(30, <<EndStmt>>)>> :
        s1 \in MidSlot1, s2 \in MidSlot2}

InitMid == InitWith(MidPrograms)
SpecMid == InitMid /\ [][Next]_vars

\* LEN(v) of a string variable
LenOf(rt, name) == Len(get_variable(rt, name).s)

\* this tick executes MID$(v, p, l) = e with a length among lengths: LEN(v)
\* is afterwards what it was
MidKeepsLen(lengths) ==
    Executes /\ Current.k = "MID_ASSIGN" /\ Current.length \in lengths
        => /\ ~threw(AfterStmt)
           /\ LenOf(runtime_', Current.variable) = LenOf(runtime_, Current.variable)

\* C26: after MID$(v, p, l) = e, LEN(v) is unchanged, for every value of v,
\* every start p, every length l (zero, negative and larger than what remains
\* included) and every replacement e
C26_MidKeepsLen == [][MidKeepsLen(MidLengths)]_vars

\* with a length that is omitted or not negative LEN(v) is unchanged
C26_MidKeepsLenForNaturalLength ==
    [][MidKeepsLen({l \in MidLengths : has_value(l) => value_of(l).value >= 0})]_vars

----------------------------------------------------------------------------
(* Field buffers: OPEN and FIELD, then CLOSE or CLEAR, then LSET *)

FieldSlot2 == {RemStmt, FieldStmt(NumberExpr(1), <<FieldVar(NumberExpr(2), S)>>)}
FieldSlot3 ==
    {RemStmt, CloseStmt(<<NumberExpr(1)>>), CloseStmt(<<NumberExpr(2)>>),
     CloseStmt(<<>>), ClearStmt}
FieldSlot4 == {RemStmt, OpenOutput(1, StringExpr("OUT"))}
FieldSlot5 == {LsetStmt(S, StringExpr(<<88>>)), LsetStmt(S, StringExpr(<<88, 89, 90>>))}

\* 10 OPEN "O", #1, "OUT"
\* 20 s2
\* 30 s3
\* 40 s4
\* 50 LSET S$ = ...
\* 60 END
FieldProgram(s2, s3, s4, s5) ==
    <<Line(10, <<OpenOutput(1, StringExpr("OUT"))>>), Line(20, <<s2>>), Line(30, <<s3>>),
      Line(40, <<s4>>), Line(50, <<s5>>), Line(60, <<EndStmt>>)>>

FieldPrograms ==
    {FieldProgram(s2, s3, s4, s5) :
        s2 \in FieldSlot2, s3 \in FieldSlot3, s4 \in FieldSlot4, s5 \in FieldSlot5}

InitField == InitWith(FieldPrograms)
SpecField == InitField /\ [][Next]_vars

\* the files this tick's statement closes: CLOSE #n closes n, CLOSE and CLEAR
\* close every file
Closes(n) ==
    /\ Executes
    /\ ~threw(AfterStmt)
    /\ \/ Current.k = "CLEAR"
       \/ Current.k = "CLOSE" /\ Current.file_numbers = <<>>
       \/ Current.k = "CLOSE" /\ \E i \in 1..Len(Current.file_numbers) :
                                    Current.file_numbers[i].value = n

\* the files that are in the file table
OpenFiles(rt) == DOMAIN rt.files

\* after a statement among kinds has closed file n no field buffer of n
\* exists, and an LSET touches no buffer of a file that is not in the file
\* table
FieldBufferGoesWithFile(kinds) ==
    /\ \A n \in 1..2 :
          Closes(n) /\ Current.k \in kinds => n \notin DOMAIN runtime_'.field_buffers
    /\ Executes /\ Current.k = "LSET" /\ Current.k \in kinds
          => \A n \in DOMAIN runtime_.field_buffers \ OpenFiles(runtime_) :
                /\ n \in DOMAIN runtime_'.field_buffers
                /\ runtime_'.field_buffers[n] = runtime_.field_buffers[n]

\* C27: a field buffer shares the lifetime of its file-table entry: after
\* CLOSE #n, CLOSE of all files, or CLEAR no field buffer or field-variable
\* mapping for file n exists, and a later LSET on a former field variable
\* touches no buffer
C27_FieldBufferGoesWithFile ==
    [][FieldBufferGoesWithFile({"CLOSE", "CLEAR", "LSET"})]_vars

\* CLEAR leaves no field buffer
C27_ClearDropsFieldBuffers == [][FieldBufferGoesWithFile({"CLEAR"})]_vars

----------------------------------------------------------------------------
(* CHAIN: main.cpp, BasicSession::run, the loop over the chain requests *)

\* StatementTable::find_line in the table st
find_line_in(st, line_num) ==
    IF line_num \in DOMAIN st.line_first_stmt_
    THEN running_at(line_num, st.line_first_stmt_[line_num])
    ELSE halted("ERROR")

\* the variables BasicSession::run saves for a chain request: both branches
\* of if (chain_req.all) save the variables of common_vars that are set
saved_vars(rt, all) ==
    {name \in {rt.common_vars[i] : i \in 1..Len(rt.common_vars)} :
        name \in DOMAIN rt.variables_}

\* the loop that restores the saved variables in the new Runtime
RECURSIVE restore_saved(_, _, _)
restore_saved(rt, names, from) ==
    IF names = {} THEN rt
    ELSE LET name == CHOOSE n \in names : TRUE
         IN  restore_saved(set_variable(rt, name, from.variables_[name]),
                           names \ {name}, from)

\* one round of the loop of BasicSession::run over the chain requests, once
\* interpreter->run() has returned without an error; files are the programs
\* that load(filename) finds.  A file that is not found ends the session.
chain(files) ==
    /\ ~is_running(runtime_.pc)
    /\ ~has_value(escaped)
    /\ ~has_value(state_.error)
    /\ has_value(state_.chain_request)
    /\ has_value(hist.last)
    /\ hist' = [hist EXCEPT !.last = None, !.cont_from = None]
    /\ UNCHANGED <<io_, escaped>>
    /\ LET req == value_of(state_.chain_request)
       IN  IF req.filename \notin DOMAIN files
           THEN UNCHANGED <<statements, runtime_, state_>>
           ELSE \E data_line_order \in IterationOrders(
                        DOMAIN collect_data(ProgramStatements(files[req.filename]),
                                            <<>>, <<>>).data_line_map) :
                  LET st == build(files[req.filename])
                      rt == restore_saved(load(files[req.filename], data_line_order),
                                          saved_vars(runtime_, req.all), runtime_)
                      target == IF has_value(req.line_number)
                                THEN find_line_in(st, value_of(req.line_number))
                                ELSE PC0
                  IN  /\ statements' = st
                      /\ runtime_' = IF has_value(req.line_number) /\ target.line # 0
                                     THEN [rt EXCEPT !.pc = target] ELSE rt
                      /\ state_' = InterpreterState0

\* B.BAS:
\* 10 PRINT X
\* 20 PRINT Y
\* 30 END
ChainFiles ==
    "B" :> <<Line(10, <<PrintStmt(VariableExpr(X))>>),
             Line(20, <<PrintStmt(VariableExpr(Y))>>),
             Line(30, <<EndStmt>>)>>

ChainSlot1 == {RemStmt, CommonStmt(<<X>>), CommonStmt(<<X, Y>>)}
ChainSlot2 == {RemStmt, LetStmt(X, NumberExpr(5))}
ChainSlot3 == {RemStmt, LetStmt(Y, NumberExpr(7))}
ChainSlot4 ==
    {ChainStmt(StringExpr(name), line, all) :
        name \in {"B", "C"}, line \in {None, Some(NumberExpr(20))}, all \in BOOLEAN}

ChainPrograms ==
    {<<Line(10, <<s1>>), Line(20, <<s2>>), Line(30, <<s3>>), Line(40, <<s4>>),
       Line(50, <<EndStmt>>)>> :
        s1 \in ChainSlot1, s2 \in ChainSlot2, s3 \in ChainSlot3, s4 \in ChainSlot4}

Chain == chain(ChainFiles)
NextChain == Tick \/ Chain

InitChain == InitWith(ChainPrograms)
SpecChain == InitChain /\ [][NextChain]_vars

\* this step loads the chained program
ChainLoads == has_value(state_.chain_request) /\ ~has_value(state_'.chain_request)

\* the variables of the program in rt: ERR and ERL belong to the interpreter
ProgramVariables(rt) == DOMAIN rt.variables_ \ {ERR, ERL}

\* the variables of rt that COMMON has declared
CommonVariables(rt) ==
    {name \in ProgramVariables(rt) : \E i \in 1..Len(rt.common_vars) : rt.common_vars[i] = name}

\* the chained program starts with these variables at their values
Carried(names) ==
    \A name \in names :
        /\ name \in DOMAIN runtime_'.variables_
        /\ runtime_'.variables_[name] = runtime_.variables_[name]

\* a plain CHAIN carries over exactly the COMMON variables
PlainChainCarriesCommon ==
    ChainLoads /\ ~value_of(state_.chain_request).all
        => /\ Carried(CommonVariables(runtime_))
           /\ ProgramVariables(runtime_') = CommonVariables(runtime_)

\* CHAIN ... ALL carries over every variable
ChainAllCarriesAll ==
    ChainLoads /\ value_of(state_.chain_request).all
        => Carried(ProgramVariables(runtime_))

\* C28: across a CHAIN, plain CHAIN carries over exactly the COMMON-declared
\* variables, all others starting at their type's zero, and CHAIN ... ALL
\* carries over every variable of the chaining program with its value
C28_ChainCarriesVariables == [][PlainChainCarriesCommon /\ ChainAllCarriesAll]_vars

\* the plain CHAIN alone
C28_PlainChainCarriesCommon == [][PlainChainCarriesCommon]_vars

----------------------------------------------------------------------------
(* The statement table: a walk with first() and next() over programs whose *)
(* lines hold zero, one or two statements, and over merged lines           *)

WalkLines ==
    {Line(n, stmts) : n \in {10, 20, 30}, stmts \in {<<>>, <<RemStmt>>, <<RemStmt, EndStmt>>}}

\* the programs of at most two lines, in the order of the source
WalkPrograms ==
    {<<>>} \cup {<<l>> : l \in WalkLines}
        \cup {<<pair[1], pair[2]>> :
                  pair \in {p \in WalkLines \X WalkLines :
                               p[1].line_number # p[2].line_number}}

InitWalk == InitWith(WalkPrograms)

\* the walk starts: first()
WalkFirst ==
    /\ hist.walk = <<>>
    /\ hist' = [hist EXCEPT !.walk = <<first(statements)>>]
    /\ UNCHANGED <<statements, runtime_, state_, io_, escaped>>

\* the walk goes on: next() of the PC produced last
WalkNext ==
    /\ hist.walk # <<>>
    /\ is_running(hist.walk[Len(hist.walk)])
    /\ hist' = [hist EXCEPT !.walk = Append(@, next(hist.walk[Len(hist.walk)]))]
    /\ UNCHANGED <<statements, runtime_, state_, io_, escaped>>

\* MERGE of a file of one line: the line is added or replaces the line of its
\* number; the walk starts again
MergeLine ==
    /\ hist.merges < MaxMerges
    /\ \E line \in WalkLines : statements' = merge(statements, <<line>>)
    /\ hist' = [hist EXCEPT !.walk = <<>>, !.merges = @ + 1]
    /\ UNCHANGED <<runtime_, state_, io_, escaped>>

NextWalk == WalkFirst \/ WalkNext \/ MergeLine
SpecWalk == InitWalk /\ [][NextWalk]_vars

\* the walk has come to a halted PC
WalkDone == hist.walk # <<>> /\ ~is_running(hist.walk[Len(hist.walk)])

PCBefore(a, b) == a.line < b.line \/ (a.line = b.line /\ a.stmt < b.stmt)

\* the PCs of the walk before the halted one are the statements of the table,
\* each once, in increasing order
WalkIsTable ==
    LET walk == hist.walk
        n == Len(walk) - 1
    IN  /\ \A i \in 1..n : <<walk[i].line, walk[i].stmt>> \in DOMAIN statements.table_
        /\ \A key \in DOMAIN statements.table_ :
              \E i \in 1..n : walk[i].line = key[1] /\ walk[i].stmt = key[2]
        /\ \A i \in 1..n : is_running(walk[i])
        /\ \A i, j \in 1..n : i < j => PCBefore(walk[i], walk[j])

\* C29: starting from first() and repeatedly applying next(), the PCs produced
\* are exactly the statements of the table, each once, in increasing (line,
\* stmt) order, followed by a halted PC, for every loaded program, lines
\* without a statement included, and after any MERGE of whole lines
C29_WalkIsTable == WalkDone => WalkIsTable

\* every line of the table holds a statement
NoEmptyLine ==
    \A i \in 1..Len(statements.line_numbers_) :
        <<statements.line_numbers_[i], 0>> \in DOMAIN statements.table_

\* the walk over a table without empty lines
C29_WalkWithoutEmptyLines == WalkDone /\ NoEmptyLine => WalkIsTable


----------------------------------------------------------------------------
(* RESUME while no error is being handled *)

\* error 20 is what the last tick raised at failing_pc: trapped by the
\* installed handler or halting the program
ResumeWithoutErrorRaisedAt(failing_pc) ==
    \/ /\ runtime_.variables_[ERR].n = RESUME_WITHOUT_ERROR
       /\ runtime_.error_pc = Some(failing_pc)
    \/ /\ runtime_.pc.reason = "ERROR"
       /\ state_.error = Some([code |-> RESUME_WITHOUT_ERROR, pc |-> failing_pc])

\* C30: RESUME, RESUME NEXT or RESUME n executed while no error is being
\* handled (error_pc unset) raises RESUME without error (code 20): the
\* statement throws error 20, and the tick either traps it (ERR = 20,
\* error_pc = the PC of the RESUME) or halts with ERROR recording code 20.
C30_ResumeWithoutError ==
    [][(/\ Executes
        /\ Current.k = "RESUME"
        /\ ~has_value(runtime_.error_pc))
        => /\ AfterStmt.thrown = Some(RESUME_WITHOUT_ERROR)
           /\ runtime_'.last_error_code = RESUME_WITHOUT_ERROR
           /\ \E failing_pc \in {runtime_.pc} :
                  ResumeWithoutErrorRaisedAt(failing_pc)']_vars

\* a RESUME NEXT reached without any error has halted the program with
\* error 20
C30_Witness ==
    /\ has_value(hist.last)
    /\ LastStmt.k = "RESUME"
    /\ LastStmt.resume_type = "NEXT"
    /\ hist.traps = 0
    /\ runtime_.pc.reason = "ERROR"
    /\ state_.error = Some([code |-> RESUME_WITHOUT_ERROR, pc |-> LastPC])


----------------------------------------------------------------------------
(* Dimensioning: DIM, the first reference to an array, ERASE *)

DimSlot1 == {RemStmt, OptionBaseStmt(1)}
DimSlot2 ==
    {LetElementStmt(A, <<NumberExpr(i)>>, NumberExpr(7)) : i \in {0, 10, 11}}
        \cup {PrintStmt(ArrayAccessExpr(A, <<NumberExpr(i)>>)) : i \in {0, 1, 10, 11}}
        \cup {LetElementStmt(A, <<NumberExpr(1), NumberExpr(10)>>, NumberExpr(7)),
              PrintStmt(ArrayAccessExpr(A, <<NumberExpr(2), NumberExpr(3)>>)),
              DimStmt(A, <<NumberExpr(3)>>), RemStmt}
DimSlot3 ==
    {DimStmt(A, <<NumberExpr(5)>>), DimStmt(A, <<NumberExpr(2), NumberExpr(2)>>),
     EraseStmt(<<A>>), RemStmt}
DimSlot4 ==
    {DimStmt(A, <<NumberExpr(4)>>), PrintStmt(ArrayAccessExpr(A, <<NumberExpr(10)>>)),
     EraseStmt(<<A>>)}
DimSlot5 == {DimStmt(A, <<NumberExpr(2)>>), LetElementStmt(A, <<NumberExpr(10)>>, NumberExpr(8))}

DimProgram(s1, s2, s3, s4, s5) ==
    <<Line(10, <<s1>>), Line(20, <<s2>>), Line(30, <<s3>>),
      Line(40, <<s4>>), Line(50, <<s5>>)>>

DimPrograms ==
    {DimProgram(s1, s2, s3, s4, s5) :
        s1 \in DimSlot1, s2 \in DimSlot2, s3 \in DimSlot3,
        s4 \in DimSlot4, s5 \in DimSlot5}

InitDim == InitWith(DimPrograms)
SpecDim == InitDim /\ [][Next]_vars

\* this tick's statement refers to an element: an assignment to it or a
\* PRINT of it
RefersToElement ==
    /\ Executes
    /\ \/ Current.k = "LET_ELEMENT"
       \/ Current.k = "PRINT" /\ Current.expression.k = "ArrayAccess"

ReferredArray ==
    IF Current.k = "LET_ELEMENT" THEN Current.target ELSE Current.expression.name
ReferredSubscripts ==
    IF Current.k = "LET_ELEMENT" THEN Current.indices ELSE Current.expression.indices

RECURSIVE Cells(_, _)
Cells(dimensions, base) ==
    IF dimensions = <<>> THEN 1
    ELSE (Head(dimensions) + 1 - base) * Cells(Tail(dimensions), base)

\* the array has subscripts base..10 on each of its n axes
DimensionedToTen(arr, n, base) ==
    /\ arr.dimensions = [i \in 1..n |-> 10]
    /\ Len(arr.data) = Cells(arr.dimensions, base)

\* C31: a first reference (read or write) to an element of an array that
\* was never dimensioned dimensions every axis to the upper bound 10; DIM of
\* an array that exists, dimensioned explicitly or implicitly, raises
\* Duplicate definition and leaves the arrays alone; ERASE removes the array,
\* and DIM of an array that does not exist creates it.
C31_Dimensioning ==
    [][/\ (RefersToElement /\ ReferredArray \notin DOMAIN runtime_.arrays_)
            => /\ ReferredArray \in DOMAIN runtime_'.arrays_
               /\ DimensionedToTen(runtime_'.arrays_[ReferredArray],
                                   Len(ReferredSubscripts), runtime_.array_base)
       /\ (Executes /\ Current.k = "DIM" /\ Current.name \in DOMAIN runtime_.arrays_)
            => /\ AfterStmt.thrown = Some(DUPLICATE_DEFINITION)
               /\ runtime_'.arrays_ = runtime_.arrays_
       /\ (Executes /\ Current.k = "DIM" /\ Current.name \notin DOMAIN runtime_.arrays_)
            => /\ ~threw(AfterStmt)
               /\ Current.name \in DOMAIN runtime_'.arrays_
               /\ runtime_'.arrays_[Current.name].dimensions =
                      [i \in 1..Len(Current.dimensions) |-> Current.dimensions[i].value]
       /\ (Executes /\ Current.k = "ERASE")
            => \A i \in 1..Len(Current.arrays) :
                   Current.arrays[i] \notin DOMAIN runtime_'.arrays_]_vars

\* an array that a first reference dimensioned has been erased and
\* dimensioned again with DIM
C31_Witness ==
    /\ has_value(hist.last)
    /\ LastStmt.k = "DIM"
    /\ value_of(hist.last).thrown = None
    /\ LastPC.line = 40
    /\ statements.table_[<<20, 0>>].k \in {"LET_ELEMENT", "PRINT"}
    /\ statements.table_[<<30, 0>>].k = "ERASE"
    /\ Len(runtime_.arrays_[A].data) = 5 - runtime_.array_base


----------------------------------------------------------------------------
(* Conversions to INTEGER: assignments to %-typed targets and the selector *)
(* of ON ... GOTO / GOSUB                                                  *)

IPCT == <<"i", "%">>
APCT == <<"a", "%">>

NarrowValues == {-40000, -32769, -32768, -1, 0, 2, 32767, 32768, 40000}

NarrowSlot1 ==
    {LetStmt(IPCT, NumberExpr(v)) : v \in NarrowValues}
        \cup {LetElementStmt(APCT, <<NumberExpr(1)>>, NumberExpr(v)) : v \in NarrowValues}
NarrowSlot2 ==
    {OnGotoStmt(e, <<100, 200>>) : e \in Selectors}
        \cup {OnGosubStmt(e, <<100, 200>>) : e \in Selectors}

NarrowProgram(s1, s2) ==
    <<Line(10, <<s1>>), Line(20, <<s2>>), Line(30, <<EndStmt>>),
      Line(100, <<PrintStmt(NumberExpr(1))>>), Line(110, <<EndStmt>>),
      Line(200, <<PrintStmt(NumberExpr(2))>>)>>

NarrowPrograms == {NarrowProgram(s1, s2) : s1 \in NarrowSlot1, s2 \in NarrowSlot2}

InitNarrow == InitWith(NarrowPrograms)
SpecNarrow == InitNarrow /\ [][Next]_vars

Whole(n) == [num |-> n, den |-> 1]

\* an assignment to a %-typed variable or array element stores the value
\* rounded half to even and clamped to -32768..32767
AssignmentsNarrow ==
    /\ (Executes /\ Current.k = "LET" /\ resolve_type(Current.target) = "INTEGER")
          => runtime_'.variables_[Current.target]
                 = Int16Value(NarrowToInteger(Whole(Current.expression.value)))
    /\ (Executes /\ Current.k = "LET_ELEMENT" /\ resolve_type(Current.target) = "INTEGER")
          => runtime_'.arrays_[Current.target].data[SubscriptsOf(Current)[1] + 1]
                 = Int16Value(NarrowToInteger(Whole(Current.expression.value)))

\* C32: every conversion of a numeric value to INTEGER (the assignment to a
\* %-typed variable or array element, the integer k of ON e GOTO / GOSUB)
\* rounds halves to the nearest even integer and clamps values outside
\* -32768..32767 to -32768 / 32767.
C32_EveryNarrowingRoundsAndClamps ==
    [][/\ AssignmentsNarrow
       /\ IsOn => OnSelects(NarrowToInteger(eval_number(Machine(runtime_, io_),
                                                        Current.selector)))]_vars

\* C32 for the assignments alone
C32_AssignmentsRoundAndClamp == [][AssignmentsNarrow]_vars


----------------------------------------------------------------------------
(* stop() *)

\* the interpreter under a driver that may call stop()
NextStop == NextDriven \/ stop
SpecStop == InitDriven /\ [][NextStop]_vars

\* the step is a call of stop()
StopCalled == hist'.stopped /\ ~hist.stopped

\* C33: stop() called at a tick boundary, whatever the reason of the PC,
\* leaves the PC halted with reason END, and from then on no tick executes
\* a statement: the PC stays halted with END, the count of executed
\* statements and the output stay as they are.
C33_StopEndsExecution ==
    [][/\ StopCalled => runtime_'.pc.reason = "END"
       /\ hist.stopped
            => /\ runtime_'.pc.reason = "END"
               /\ hist'.ticks = hist.ticks
               /\ state_'.statements_executed = state_.statements_executed
               /\ io_' = io_]_vars

\* stop() has been called after a tick halted at a breakpoint, and a tick
\* has been called since
C33_Witness ==
    /\ hist.stopped
    /\ hist.idle > 0
    /\ hist.ticks > 0
    /\ state_.skip_next_breakpoint
    /\ runtime_.pc = halted("END")


----------------------------------------------------------------------------
(* CLEAR and the program counter *)

\* C34: a tick that executes CLEAR, at whatever position, leaves the PC at
\* the statement that follows that CLEAR in program order, so that statement
\* is the next one executed.
C34_ClearContinuesAfterClear ==
    [][Executes /\ Current.k = "CLEAR" => runtime_'.pc = next(runtime_.pc)]_vars

\* what the tick that executes CLEAR does leave: the PC at the statement that
\* follows the first statement of the program
C34_ClearRestartsAfterFirst ==
    [][Executes /\ Current.k = "CLEAR"
          => runtime_'.pc = next(first(statements))]_vars


----------------------------------------------------------------------------
(* GOSUB to a line that does not exist *)

(*     10  ON ERROR GOTO 100 | ON ERROR GOTO 900 | REM                     *)
(*     20  GOSUB 500 | GOSUB 200 | ON k GOSUB 200, 500  (k = 1, 2, 3)      *)
(*           | ON 1 GOSUB 500, 200                                          *)
(*     30  PRINT 1 | RETURN                                                *)
(*     40  END                                                             *)
(*     100 RESUME NEXT | END                                               *)
(*     200 RETURN | RETURN 900                                             *)

MissingSlot1 == {parse_on_error(100, FALSE), parse_on_error(900, FALSE), RemStmt}
MissingSlot2 ==
    {GosubStmt(500), GosubStmt(200),
     OnGosubStmt(NumberExpr(1), <<200, 500>>), OnGosubStmt(NumberExpr(2), <<200, 500>>),
     OnGosubStmt(NumberExpr(3), <<200, 500>>), OnGosubStmt(NumberExpr(1), <<500, 200>>)}
MissingSlot3 == {PrintStmt(NumberExpr(1)), ReturnStmt(None)}
MissingSlot5 == {parse_resume(TRUE, None), EndStmt}
MissingSlot6 == {ReturnStmt(None), ReturnStmt(Some(900))}

MissingProgram(s1, s2, s3, s5, s6) ==
    <<Line(10, <<s1>>), Line(20, <<s2>>), Line(30, <<s3>>), Line(40, <<EndStmt>>),
      Line(100, <<s5>>), Line(200, <<s6>>)>>

MissingPrograms ==
    {MissingProgram(s1, s2, s3, s5, s6) :
        s1 \in MissingSlot1, s2 \in MissingSlot2, s3 \in MissingSlot3,
        s5 \in MissingSlot5, s6 \in MissingSlot6}

InitMissing == InitWith(MissingPrograms)
SpecMissing == InitMissing /\ [][Next]_vars

\* the line a GOSUB or ON ... GOSUB at s calls, if it calls one
CalledLine(m, s) ==
    IF s.k = "GOSUB" THEN Some(s.target_line)
    ELSE IF s.k = "ON_GOSUB"
    THEN LET idx == static_cast_int(eval_number(m, s.selector))
         IN  IF idx >= 1 /\ idx <= Len(s.targets) THEN Some(s.targets[idx]) ELSE None
    ELSE None

\* s calls a line that is not in the program
CallsMissingLine(m, s) ==
    /\ has_value(CalledLine(m, s))
    /\ ~valid(find_line(value_of(CalledLine(m, s))))

\* C35: GOSUB or ON ... GOSUB to a line that does not exist raises Undefined
\* line number and leaves the exec stack exactly as it was; so when the
\* failure has been trapped and the handler executes RESUME NEXT, the stack
\* holds no GOSUB entry of the failed call.
C35_MissingLineLeavesStack ==
    [][/\ (Executes /\ CallsMissingLine(Machine(runtime_, io_), Current))
            => /\ AfterStmt.thrown = Some(UNDEFINED_LINE)
               /\ AfterStmt.rt.exec_stack = runtime_.exec_stack
       /\ (/\ Executes
           /\ Current.k = "RESUME"
           /\ has_value(runtime_.error_pc)
           /\ CallsMissingLine(Machine(runtime_, io_),
                               value_of(get(value_of(runtime_.error_pc)))))
            => \A i \in DOMAIN runtime_'.exec_stack :
                   runtime_'.exec_stack[i] #
                       GosubEntry(next(value_of(runtime_.error_pc)))]_vars

\* the failed call does raise Undefined line number
C35_MissingLineRaises ==
    [][(Executes /\ CallsMissingLine(Machine(runtime_, io_), Current))
          => AfterStmt.thrown = Some(UNDEFINED_LINE)]_vars


----------------------------------------------------------------------------
(* halting with reason ERROR *)

\* C36: whenever the PC is halted with reason ERROR, InterpreterState.error
\* holds the error that caused the halt; a transfer to a line that does not
\* exist (RETURN n, the line of the installed handler) is reported as a
\* runtime error and is never a silent halt.
C36_ErrorHaltIsReported ==
    runtime_.pc.reason = "ERROR" => has_value(state_.error)

\* a halt with reason ERROR at a statement of the program is reported: the
\* silent halts are those at the PC find_line gives for a missing line
C36_ErrorHaltAtStatementIsReported ==
    (runtime_.pc.reason = "ERROR" /\ valid(runtime_.pc))
        => /\ has_value(state_.error)
           /\ value_of(state_.error).pc = [runtime_.pc EXCEPT !.reason = "RUNNING"]


----------------------------------------------------------------------------
(* OPTION BASE between DIM and the accesses *)

(*     10  OPTION BASE 1 | OPTION BASE 0 | REM                             *)
(*     20  DIM A(2) | DIM A(1,2) | REM                                     *)
(*     30  OPTION BASE 0 | OPTION BASE 1 | ERASE A                         *)
(*     40  A(t) = 7 | PRINT A(t)                                           *)
(*     50  ERASE A | OPTION BASE 0 | REM                                   *)
(*     60  A(2) = 8 | A(1,2) = 8 | PRINT A(10)                             *)

BaseSlot1 == {OptionBaseStmt(1), OptionBaseStmt(0), RemStmt}
BaseSlot2 ==
    {DimStmt(A, <<NumberExpr(2)>>), DimStmt(A, <<NumberExpr(1), NumberExpr(2)>>),
     RemStmt}
BaseSlot3 == {OptionBaseStmt(0), OptionBaseStmt(1), EraseStmt(<<A>>)}
BaseSlot4 ==
    {LetElementStmt(A, <<NumberExpr(i)>>, NumberExpr(7)) : i \in 0..3}
        \cup {LetElementStmt(A, <<NumberExpr(i), NumberExpr(j)>>, NumberExpr(7)) :
                 i \in 0..1, j \in {0, 2}}
        \cup {PrintStmt(ArrayAccessExpr(A, <<NumberExpr(2)>>)),
              PrintStmt(ArrayAccessExpr(A, <<NumberExpr(1), NumberExpr(2)>>))}
BaseSlot5 == {EraseStmt(<<A>>), OptionBaseStmt(0), RemStmt}
BaseSlot6 ==
    {LetElementStmt(A, <<NumberExpr(2)>>, NumberExpr(8)),
     LetElementStmt(A, <<NumberExpr(1), NumberExpr(2)>>, NumberExpr(8)),
     PrintStmt(ArrayAccessExpr(A, <<NumberExpr(10)>>))}

BaseProgram(s1, s2, s3, s4, s5, s6) ==
    <<Line(10, <<s1>>), Line(20, <<s2>>), Line(30, <<s3>>),
      Line(40, <<s4>>), Line(50, <<s5>>), Line(60, <<s6>>)>>

BasePrograms ==
    {BaseProgram(s1, s2, s3, s4, s5, s6) :
        s1 \in BaseSlot1, s2 \in BaseSlot2, s3 \in BaseSlot3,
        s4 \in BaseSlot4, s5 \in BaseSlot5, s6 \in BaseSlot6}

InitBase == InitWith(BasePrograms)
SpecBase == InitBase /\ [][Next]_vars

\* the flat index of the element (name, indices) in the machine m, where the
\* array exists, is within the storage of the array unless array_index raises
\* Subscript out of range
FlatIndexInStorage(m, name, indices) ==
    has_value(array_index(m.rt, m.rt.arrays_[name], indices))
        => value_of(array_index(m.rt, m.rt.arrays_[name], indices))
               < Len(m.rt.arrays_[name].data)

\* C37: whatever OPTION BASE, DIM, ERASE and accesses came before, the flat
\* index computed for an access to an element (of an array that exists or
\* that the access dimensions) that does not raise Subscript out of range is
\* smaller than the size of the array's storage.
C37_FlatIndexWithinStorage ==
    [][RefersToElement
          => FlatIndexInStorage(
                 auto_dim(Machine(runtime_, io_), ReferredArray,
                          subscripts(Machine(runtime_, io_), ReferredSubscripts)),
                 ReferredArray,
                 subscripts(Machine(runtime_, io_), ReferredSubscripts))]_vars

\* the array_base is the one the array was dimensioned under
DimensionedUnderBase(rt, name) ==
    name \in DOMAIN rt.arrays_
        => Len(rt.arrays_[name].data) = Cells(rt.arrays_[name].dimensions, rt.array_base)

\* the flat index is within the storage as long as OPTION BASE has not
\* changed since the array was dimensioned
C37_FlatIndexWithinStorageUnderOneBase ==
    [][(RefersToElement /\ DimensionedUnderBase(runtime_, ReferredArray))
          => FlatIndexInStorage(
                 auto_dim(Machine(runtime_, io_), ReferredArray,
                          subscripts(Machine(runtime_, io_), ReferredSubscripts)),
                 ReferredArray,
                 subscripts(Machine(runtime_, io_), ReferredSubscripts))]_vars


----------------------------------------------------------------------------
(* Interpreter::run: the loop that calls tick() until it returns false *)

(*     10  ON ERROR GOTO 100 | ON ERROR GOTO 110 | REM                     *)
(*     20  ERROR 5 | GOTO 999 | PRINT 1 | RESUME                           *)
(*     30  END | PRINT 2                                                   *)
(*     100 ON ERROR GOTO 0 | END | ERROR 6                                 *)
(*     110 END | RESUME NEXT                                               *)

RunSlot1 == {parse_on_error(100, FALSE), parse_on_error(110, FALSE), RemStmt}
RunSlot2 ==
    {ErrorStmt(NumberExpr(5)), GotoStmt(999), PrintStmt(NumberExpr(1)),
     parse_resume(FALSE, None)}
RunSlot3 == {EndStmt, PrintStmt(NumberExpr(2))}
RunSlot4 == {parse_on_error(0, FALSE), EndStmt, ErrorStmt(NumberExpr(6))}
RunSlot5 == {EndStmt, parse_resume(TRUE, None)}

RunProgram(s1, s2, s3, s4, s5) ==
    <<Line(10, <<s1>>), Line(20, <<s2>>), Line(30, <<s3>>),
      Line(100, <<s4>>), Line(110, <<s5>>)>>

RunPrograms ==
    {RunProgram(s1, s2, s3, s4, s5) :
        s1 \in RunSlot1, s2 \in RunSlot2, s3 \in RunSlot3,
        s4 \in RunSlot4, s5 \in RunSlot5}

InitRun == InitWith(RunPrograms)

\* one iteration of while (tick()) {} in Interpreter::run: the loop goes on
\* for as long as tick() returns true, and nothing counts its iterations
run ==
    /\ is_running(runtime_.pc)
    /\ ~has_value(escaped)
    /\ \E begin_key \in BeginKeys(runtime_.for_states) :
          /\ Leaves(tick(runtime_, state_, io_, begin_key))
          /\ escaped' = IF Executes THEN After(begin_key).fault ELSE None
    /\ hist' = [hist EXCEPT !.beat = ~@]
    /\ UNCHANGED statements

NextRun == run

\* what every step of run is and no other step of NextRun: tick() is total,
\* so an iteration is possible exactly when the PC is RUNNING and no
\* exception has left the loop
RunGoesOn ==
    /\ is_running(runtime_.pc)
    /\ ~has_value(escaped)
    /\ hist' = [hist EXCEPT !.beat = ~@]

\* run() never stops calling tick() while tick() returns true
SpecRun == InitRun /\ [][NextRun]_vars /\ WF_hist(RunGoesOn)

\* an error has been trapped and not resumed, and the handler is at END
HandlerAtEnd ==
    /\ Executes
    /\ Current.k = "END"
    /\ has_value(runtime_.error_pc)

\* C38: when an error has been trapped and the handler reaches END without
\* a RESUME, the run eventually halts: No RESUME ends the execution, the
\* handler is not entered again and again.
C38_HandlerEndHalts == HandlerAtEnd ~> ~is_running(runtime_.pc)

\* the run does halt when no handler is installed any more at that END
C38_HandlerEndHaltsUntrapped ==
    (HandlerAtEnd /\ ~has_value(runtime_.error_handler_line))
        ~> ~is_running(runtime_.pc)


----------------------------------------------------------------------------
(* ERL after a trapped error *)

\* C39: after a trapped error ERL equals the line number of the statement
\* that failed, for every legal line number 0..65529.
C39_ErlIsFailingLine ==
    [][(Raises /\ has_value(runtime_.error_handler_line))
          => /\ runtime_.pc.line \in 0..65529
             /\ runtime_'.variables_[ERL].n = runtime_.pc.line]_vars

\* ERL is the failing line up to 32767, and the line less 65536 above
C39_ErlIsFailingLineModulo ==
    [][(Raises /\ has_value(runtime_.error_handler_line))
          => runtime_'.variables_[ERL].n =
                 IF runtime_.pc.line <= INT16_MAX THEN runtime_.pc.line
                 ELSE runtime_.pc.line - 65536]_vars


----------------------------------------------------------------------------
(* Breakpoints *)

(*     10  X = X + 1 | PRINT 1                                             *)
(*     20  PRINT 2 | GOTO 10 | GOTO 20                                     *)
(*     30  GOTO 10 | IF X < 2 THEN GOTO 10 | END                           *)
(*     40  END                                                             *)

BreakpointSlot1 ==
    {LetStmt(X, BinaryExpr("PLUS", VariableExpr(X), NumberExpr(1))), PrintNumber(1)}
BreakpointSlot2 == {PrintNumber(2), GotoStmt(10), GotoStmt(20)}
BreakpointSlot3 ==
    {GotoStmt(10), EndStmt,
     IfStmt(BinaryExpr("LESS_THAN", VariableExpr(X), NumberExpr(2)),
            <<GotoStmt(10)>>, None, <<>>, None)}

BreakpointProgram(s1, s2, s3) ==
    <<Line(10, <<s1>>), Line(20, <<s2>>), Line(30, <<s3>>), Line(40, <<EndStmt>>)>>

BreakpointPrograms ==
    {BreakpointProgram(s1, s2, s3) :
        s1 \in BreakpointSlot1, s2 \in BreakpointSlot2, s3 \in BreakpointSlot3}

BreakpointSets ==
    {{}, {running_at(10, 0)}, {running_at(20, 0)},
     {running_at(10, 0), running_at(20, 0)}}

InitBreakpoint == InitWithBreakpoints(BreakpointPrograms, BreakpointSets)

\* the interpreter under a driver that continues after a halt, pauses and
\* resumes, and a source of breaks
NextBreakpoint ==
    \/ Tick
    \/ RequestBreak
    \/ cont
    \/ pause
    \/ resume
SpecBreakpoint == InitBreakpoint /\ [][NextBreakpoint]_vars

\* this call of tick() gets past the tests for a pause and for a break
PastPauseAndBreak ==
    /\ RunningTick
    /\ ~state_.pause_requested
    /\ ~runtime_.break_requested

\* the tick halts with BREAKPOINT at the PC it found, executing nothing
HaltsAtBreakpoint ==
    /\ runtime_' = [runtime_ EXCEPT !.pc.reason = "BREAKPOINT"]
    /\ state_'.statements_executed = state_.statements_executed
    /\ io_' = io_
    /\ hist'.last = None

\* the tick executes the statement at the PC it found
ExecutesStatementAt(p) ==
    /\ has_value(hist'.last)
    /\ value_of(hist'.last).pc = p
    /\ value_of(hist'.last).stmt = value_of(get(p))
    /\ runtime_'.pc.reason # "BREAKPOINT"

\* C40: a tick that finds the PC at a breakpoint p halts with BREAKPOINT
\* before the statement at p executes; once the driver has set the reason
\* back to RUNNING, the next tick (that no pause or break stops) executes the
\* statement at p and does not halt at the breakpoint again; as one executed
\* statement ends the exemption, the interpreter halts at p again each later
\* time control is at p.
C40_BreakpointHaltsOncePerVisit ==
    [][/\ (PastPauseAndBreak /\ at_breakpoint(runtime_)
           /\ hist.broke_at # Some(runtime_.pc))
            => HaltsAtBreakpoint
       /\ (PastPauseAndBreak /\ hist.broke_at = Some(runtime_.pc))
            => \E p \in {runtime_.pc} : ExecutesStatementAt(p)]_vars

\* the interpreter has halted at the breakpoint at line 10, executed the
\* statement there after the driver continued, and halted at line 10 again
\* when line 20 sent control back
C40_Witness ==
    /\ runtime_.breakpoints = {running_at(10, 0)}
    /\ runtime_.pc = [running_at(10, 0) EXCEPT !.reason = "BREAKPOINT"]
    /\ hist.broke_at = Some(running_at(10, 0))
    /\ hist.conts = 1
    /\ state_.statements_executed = 2
    /\ get(running_at(20, 0)) = Some(GotoStmt(10))

====
